---- MODULE Spec2Model ----
(***************************************************************************)
(* The request handlers of the VIA backend: the routes router              *)
(* (src/src/routes/auth.js), the users router and the requireAuth          *)
(* middleware, over the Supabase tables they use.                          *)
(* Every request is served by an async handler: the code between two       *)
(* awaits runs as one step, each awaited storage call is one step of the   *)
(* storage collaborator, and the steps of different requests interleave.   *)
(***************************************************************************)
EXTENDS Integers, Sequences, FiniteSets, TLC

\* ------------------------------------------------------ bounds and constants

\* Number of requests served (each slot carries one request, slots run concurrently).
NReq == 2

Slots == 1..NReq

\* Resolution of the fixed-point numbers: Scale units make 1.
Scale == 10000

\* Earth's radius in metres.
R == 6371000

\* The most rows GET /routes fetches.
Limit == 100

\* ------------------------------------------------------ JavaScript values

\* An optional value (a property that may be undefined): {} or {v}.
None == {}
Some(v) == {v}
Val(o) == CHOOSE v \in o : TRUE

\* !x for a string-valued property: undefined and "" are falsy.
FalsyStr(o) == o = None \/ o = Some("")

\* !x for a number-valued property: undefined and 0 are falsy.
FalsyNum(o) == o = None \/ o = Some(0)

\* ----------------------------------------------------------- collaborators

Users == {"u1", "u2"}

\* supabase.auth.getUser(token): the user of a valid token, an error otherwise.
GetUser(token) ==
  CASE token = "t1" -> Some("u1")
    [] token = "t2" -> Some("u2")
    [] OTHER -> None

\* new Date(s).getTime() for the timestamps the requests carry (milliseconds).
DateMs(s) ==
  CASE s = "10:00:00.000" -> 36000000
    [] s = "10:00:59.500" -> 36059500
    [] s = "10:01:00.000" -> 36060000
    [] OTHER -> 0

\* ------------------------------------------------------------------- state

VARIABLES
  routes,        \* table routes: a set of rows
  route_points,  \* table route_points: rows in insertion order (bigint id)
  route_tags,    \* table route_tags: rows in insertion order
  votes,         \* table votes: a set of rows
  req,           \* per slot: the request (endpoint, headers, params, body)
  pc,            \* per slot: where its handler stands
  user,          \* per slot: req.user.id as attached by requireAuth
  routeId,       \* per slot: the handler's routeId (createRoute)
  res,           \* per slot: the response sent
  fetched,       \* per slot: the route row a read handler holds (getRoute)
  sortedPoints,  \* per slot: the handler's sortedPoints (createRoute)
  calls,         \* per slot: the storage calls issued so far, with their outcome
  lastUpsert     \* per (route, user): the vote of the last upsert applied

vars == <<routes, route_points, route_tags, votes, req, pc, user, routeId, res, fetched, sortedPoints, calls, lastUpsert>>

storage == <<routes, route_points, route_tags, votes>>

NoRes == [status |-> 0]
NoReq == [ep |-> "none"]

\* ------------------------------------------------------------ seed storage

Pt(s, la, ln, t) == [seq |-> s, lat |-> la, lng |-> ln, time |-> t, acc |-> None]

SeedRoute(id, creator_id, title, is_active) ==
  [id |-> id, creator_id |-> creator_id, title |-> title, description |-> None,
   start_label |-> "A", end_label |-> "B",
   start_lng |-> Some(-97), start_lat |-> Some(30 + id),
   end_lng |-> Some(-97), end_lat |-> Some(30 + id),
   start_time |-> "10:00:00.000", end_time |-> "10:01:00.000",
   duration_seconds |-> 60, distance_meters |-> Some(0), is_active |-> is_active,
   created_at |-> id]

\* Two active routes and a soft-deleted one.
SeedRoutes ==
  { SeedRoute(1, "u1", "Seed", TRUE),
    SeedRoute(2, "u2", "Other", TRUE),
    SeedRoute(3, "u2", "Hidden", FALSE) }

SeedPoint(route_id) ==
  [route_id |-> route_id, sequence |-> Some(1), lng |-> Some(-97), lat |-> Some(30 + route_id),
   recorded_at |-> Some("10:00:00.000"), accuracy_meters |-> None]

SeedPoints == << SeedPoint(1), SeedPoint(2), SeedPoint(3) >>

\* Route ids the storage can hold: the seed rows and one per request.
RouteIds == 1..(Cardinality(SeedRoutes) + NReq)

VoteKeys == RouteIds \X Users

\* The tags table (id, name).
TagsTable == { [id |-> "tagA", name |-> "Shade"], [id |-> "tagB", name |-> "quiet"] }

\* A storage with one active route more than GET /routes fetches, a soft-deleted
\* route, and votes and tags on the first routes.
FeedRoutes ==
  { SeedRoute(id, "u1", "Feed", TRUE) : id \in 1..(Limit + 1) }
  \cup { SeedRoute(Limit + 2, "u2", "Hidden", FALSE) }

FeedVotes ==
  { [route_id |-> 1, user_id |-> "u1", vote_type |-> "up", context |-> "safety"],
    [route_id |-> 1, user_id |-> "u2", vote_type |-> "down", context |-> "scenery"],
    [route_id |-> 2, user_id |-> "u1", vote_type |-> "up", context |-> "safety"] }

FeedTags ==
  << [route_id |-> 1, tag_id |-> "tagA"], [route_id |-> 2, tag_id |-> "tagB"],
     [route_id |-> Limit + 2, tag_id |-> "tagA"] >>

InitFeed ==
  /\ routes = FeedRoutes
  /\ route_points = <<>>
  /\ route_tags = FeedTags
  /\ votes = FeedVotes
  /\ req = [s \in Slots |-> NoReq]
  /\ pc = [s \in Slots |-> "idle"]
  /\ user = [s \in Slots |-> None]
  /\ routeId = [s \in Slots |-> 0]
  /\ res = [s \in Slots |-> NoRes]
  /\ fetched = [s \in Slots |-> None]
  /\ sortedPoints = [s \in Slots |-> <<>>]
  /\ calls = [s \in Slots |-> <<>>]
  /\ lastUpsert = [k \in VoteKeys |->
                     { v \in FeedVotes : v.route_id = k[1] /\ v.user_id = k[2] }]

Init ==
  /\ routes = SeedRoutes
  /\ route_points = SeedPoints
  /\ route_tags = <<>>
  /\ votes = {}
  /\ req = [s \in Slots |-> NoReq]
  /\ pc = [s \in Slots |-> "idle"]
  /\ user = [s \in Slots |-> None]
  /\ routeId = [s \in Slots |-> 0]
  /\ res = [s \in Slots |-> NoRes]
  /\ fetched = [s \in Slots |-> None]
  /\ sortedPoints = [s \in Slots |-> <<>>]
  /\ calls = [s \in Slots |-> <<>>]
  /\ lastUpsert = [k \in VoteKeys |-> None]

\* -------------------------------------------------------- response helpers

\* res.status(n).json(body): the response is sent and the handler returns.
Respond(s, r) ==
  /\ res' = [res EXCEPT ![s] = r]
  /\ pc' = [pc EXCEPT ![s] = "done"]

\* The handler awaits its next storage call.
Await(s, l) ==
  /\ pc' = [pc EXCEPT ![s] = l]
  /\ UNCHANGED res

\* The storage call c was issued by slot s and returned ok or an error.
Called(s, c, ok) == calls' = [calls EXCEPT ![s] = Append(@, [call |-> c, ok |-> ok])]

\* ------------------------------------------------- POST /routes (createRoute)

\* The list of the 400 response without its last entry.
RequiredFieldsNoPoints == <<"title", "start_label", "end_label", "start_time", "end_time">>

RequiredFields == <<"title", "start_label", "end_label", "start_time", "end_time", "points">>

\* !points || points.length === 0
NoPoints(b) == b.points = None \/ Len(Val(b.points)) = 0

\* The required-field test of the handler.
MissingRequired(b) ==
  \/ FalsyStr(b.title)
  \/ FalsyStr(b.start_label)
  \/ FalsyStr(b.end_label)
  \/ FalsyStr(b.start_time)
  \/ FalsyStr(b.end_time)
  \/ NoPoints(b)

\* The comparator (a, b) => a.seq - b.seq. With a seq undefined the difference is NaN,
\* which Array.prototype.sort takes as +0.
CompareSeq(a, b) == IF a.seq = None \/ b.seq = None THEN 0 ELSE Val(a.seq) - Val(b.seq)

\* p goes behind every point that does not compare greater.
InsertBySeq(p, sorted) ==
  LET keep == { i \in 1..Len(sorted) : CompareSeq(sorted[i], p) <= 0 }
      n == Cardinality(keep)
  IN  SubSeq(sorted, 1, n) \o <<p>> \o SubSeq(sorted, n + 1, Len(sorted))

RECURSIVE SortBySeq(_)
\* points.sort((a, b) => a.seq - b.seq) under a consistent comparator: ascending, stable.
SortBySeq(points) ==
  IF points = <<>> THEN <<>>
  ELSE InsertBySeq(points[Len(points)], SortBySeq(SubSeq(points, 1, Len(points) - 1)))

\* The comparator is consistent on the points: comparing equal is transitive.
ConsistentComparator(points) ==
  \A i, j, k \in 1..Len(points) :
    (CompareSeq(points[i], points[j]) = 0 /\ CompareSeq(points[j], points[k]) = 0)
      => CompareSeq(points[i], points[k]) = 0

\* Every order of the points.
Arrangements(points) ==
  { [i \in 1..Len(points) |-> points[f[i]]] : f \in Permutations(1..Len(points)) }

\* The arrays points.sort(...) can leave: the stable ascending order, or, under an
\* inconsistent comparator, an order the engine is free to choose.
SortOutcomes(points) ==
  IF ConsistentComparator(points) THEN {SortBySeq(points)} ELSE Arrangements(points)

\* DurationSeconds with Math.trunc in the place of Math.floor.
DurationSecondsTrunc(start_time, end_time) ==
  LET ms == DateMs(end_time) - DateMs(start_time)
  IN  IF ms >= 0 THEN ms \div 1000 ELSE -((-ms) \div 1000)

\* Math.floor((endDate - startDate) / 1000)
DurationSeconds(start_time, end_time) == (DateMs(end_time) - DateMs(start_time)) \div 1000

\* Numbers of the distance computation are doubles, held here in fixed point: x stands
\* for x / Scale. Every operation rounds toward zero, so that, as with IEEE rounding,
\* op(-x) = -op(x). NaN is None.

\* x / y
Quot(x, y) == IF x >= 0 THEN x \div y ELSE -((-x) \div y)

\* x * y of two fixed-point numbers
Mul(x, y) == Quot(x * y, Scale)

\* Math.PI
Pi == Quot(31416 * Scale, 10000)

\* deg * Math.PI / 180 (deg a whole number of degrees)
Rad(deg) == Quot(deg * Pi, 180)

\* Math.sin(x), |x| up to pi/2
Sin(x) ==
  LET x2 == Mul(x, x)
      t3 == Quot(Mul(x, x2), 6)
      t5 == Quot(Mul(t3, x2), 20)
      t7 == Quot(Mul(t5, x2), 42)
  IN  x - t3 + t5 - t7

\* Math.cos(x), |x| up to pi/2
Cos(x) ==
  LET x2 == Mul(x, x)
      t2 == Quot(x2, 2)
      t4 == Quot(Mul(t2, x2), 12)
      t6 == Quot(Mul(t4, x2), 30)
      t8 == Quot(Mul(t6, x2), 56)
  IN  Scale - t2 + t4 - t6 + t8

RECURSIVE Newton(_, _)
\* The integer square root of n, from a guess x that is not below it.
Newton(n, x) ==
  LET y == (x + n \div x) \div 2
  IN  IF y >= x THEN x ELSE Newton(n, y)

\* Math.sqrt(x), 0 <= x <= 2, of an x held at the finer resolution: xx is x * Scale^2.
Sqrt(xx) == IF xx <= 0 THEN 0 ELSE Newton(xx, xx)

\* t / (1 + sqrt(1 + t^2)): the tangent of half the angle whose tangent is t.
HalfTan(t) == Quot(t * Scale, Scale + Sqrt(Scale * Scale + t * t))

\* Math.atan(t), 0 <= t <= 1
Atan(t) ==
  LET u == HalfTan(HalfTan(t))
      u2 == Mul(u, u)
      t3 == Quot(Mul(u, u2), 3)
      t5 == Quot(Mul(Mul(u, u2), u2), 5)
  IN  4 * (u - t3 + t5)

\* Math.atan2(y, x), y >= 0 and x >= 0
Atan2(y, x) ==
  IF y = 0 THEN 0
  ELSE IF y <= x THEN Atan(Quot(y * Scale, x))
  ELSE Quot(Pi, 2) - Atan(Quot(x * Scale, y))

\* The body of the loop of calculateDistance: R * c for p1 and p2, in metres
\* (NaN when a coordinate is undefined). aa is a at the finer resolution, a * Scale^2.
Haversine(p1, p2) ==
  IF p1.lat = None \/ p1.lng = None \/ p2.lat = None \/ p2.lng = None THEN None
  ELSE LET lat1 == Rad(Val(p1.lat))
           lat2 == Rad(Val(p2.lat))
           deltaLat == Rad(Val(p2.lat) - Val(p1.lat))
           deltaLng == Rad(Val(p2.lng) - Val(p1.lng))
           aa == Sin(Quot(deltaLat, 2)) * Sin(Quot(deltaLat, 2))
                 + Mul(Mul(Cos(lat1), Cos(lat2)), Sin(Quot(deltaLng, 2)))
                   * Sin(Quot(deltaLng, 2))
           c == 2 * Atan2(Sqrt(aa), Sqrt(Scale * Scale - aa))
       IN  Some(Quot(Quot(R, 1000) * c, Quot(Scale, 1000)))

\* totalDistance += R * c
AddDistance(totalDistance, d) ==
  IF totalDistance = None \/ d = None THEN None ELSE Some(Val(totalDistance) + Val(d))

RECURSIVE DistanceLoop(_, _, _)
\* for (let i = ...; i < points.length - 1; i++), i counted from 1 here
DistanceLoop(points, i, totalDistance) ==
  IF i > Len(points) - 1 THEN totalDistance
  ELSE DistanceLoop(points, i + 1, AddDistance(totalDistance, Haversine(points[i], points[i + 1])))

\* calculateDistance with the loop started at the second point.
calculateDistanceFromSecond(points) == DistanceLoop(points, 2, Some(0))

\* calculateDistance(points)
calculateDistance(points) == DistanceLoop(points, 1, Some(0))

\* sortedPoints.map(...): the rows handed to insert_route_points.
RoutePointsToInsert(sorted) ==
  [i \in 1..Len(sorted) |->
     [sequence |-> sorted[i].seq,
      lng |-> sorted[i].lng,
      lat |-> sorted[i].lat,
      recorded_at |-> sorted[i].time,
      accuracy_meters |-> IF FalsyNum(sorted[i].acc) THEN None ELSE sorted[i].acc]]

\* gen_random_uuid(): an id no row has (ids are handed out in order, rows are never deleted).
NewRouteId == Cardinality(routes) + 1

\* The parameters of the create_route_with_geography call.
RouteParams(b, sorted, creator_id) ==
  LET firstPoint == sorted[1]
      lastPoint == sorted[Len(sorted)]
  IN  [p_creator_id |-> creator_id,
       p_title |-> Val(b.title),
       p_description |-> IF FalsyStr(b.description) THEN None ELSE b.description,
       p_start_label |-> Val(b.start_label),
       p_end_label |-> Val(b.end_label),
       p_start_lng |-> firstPoint.lng,
       p_start_lat |-> firstPoint.lat,
       p_end_lng |-> lastPoint.lng,
       p_end_lat |-> lastPoint.lat,
       p_start_time |-> Val(b.start_time),
       p_end_time |-> Val(b.end_time),
       p_duration_seconds |-> DurationSeconds(Val(b.start_time), Val(b.end_time)),
       p_distance_meters |-> calculateDistance(sorted)]

\* now(): later than the created_at of every stored row.
Now == 1 + Cardinality(routes)

\* create_route_with_geography: the row it stores (is_active defaults to true,
\* created_at to now()).
CreateRouteWithGeography(id, p) ==
  [id |-> id, creator_id |-> p.p_creator_id, title |-> p.p_title,
   description |-> p.p_description,
   start_label |-> p.p_start_label, end_label |-> p.p_end_label,
   start_lng |-> p.p_start_lng, start_lat |-> p.p_start_lat,
   end_lng |-> p.p_end_lng, end_lat |-> p.p_end_lat,
   start_time |-> p.p_start_time, end_time |-> p.p_end_time,
   duration_seconds |-> p.p_duration_seconds, distance_meters |-> p.p_distance_meters,
   is_active |-> TRUE, created_at |-> Now]

\* insert_route_points: one row per element of p_points, in order.
InsertRoutePoints(p_route_id, p_points) ==
  [i \in 1..Len(p_points) |->
     [route_id |-> p_route_id, sequence |-> p_points[i].sequence,
      lng |-> p_points[i].lng, lat |-> p_points[i].lat,
      recorded_at |-> p_points[i].recorded_at,
      accuracy_meters |-> p_points[i].accuracy_meters]]

\* tags && tags.length > 0
HasTags(b) == b.tags # None /\ Len(Val(b.tags)) > 0

\* tags.map(tagId => ({route_id, tag_id}))
RouteTagsToInsert(rid, tags) == [i \in 1..Len(tags) |-> [route_id |-> rid, tag_id |-> tags[i]]]

\* CreateRouteStart that answers 400 when end_time is earlier than start_time.
CreateRouteStartOrdered(s) ==
  /\ UNCHANGED calls
  /\ IF MissingRequired(req[s].body)
     THEN /\ Respond(s, [status |-> 400, error |-> "Missing required fields",
                         required |-> RequiredFields])
          /\ UNCHANGED sortedPoints
     ELSE IF DateMs(Val(req[s].body.end_time)) < DateMs(Val(req[s].body.start_time))
     THEN /\ Respond(s, [status |-> 400, error |-> "Invalid time range",
                         message |-> "end_time must not be earlier than start_time"])
          /\ UNCHANGED sortedPoints
     ELSE /\ \E sorted \in SortOutcomes(Val(req[s].body.points)) :
               sortedPoints' = [sortedPoints EXCEPT ![s] = sorted]
          /\ Await(s, "await_create_route")

\* The handler up to its first await: the required-field check and the sort.
CreateRouteStart(s) ==
  /\ UNCHANGED calls
  /\ IF MissingRequired(req[s].body)
     THEN /\ Respond(s, [status |-> 400, error |-> "Missing required fields",
                         required |-> RequiredFields])
          /\ UNCHANGED sortedPoints
     ELSE /\ \E sorted \in SortOutcomes(Val(req[s].body.points)) :
               sortedPoints' = [sortedPoints EXCEPT ![s] = sorted]
          /\ Await(s, "await_create_route")

\* CreateRouteRpc without the return in the routeError branch.
CreateRouteRpcNoReturn(s) ==
  /\ pc[s] = "await_create_route"
  /\ \E ok \in BOOLEAN :
       /\ Called(s, "create_route_with_geography", ok)
       /\ IF ok
          THEN /\ routes' = routes \cup
                    {CreateRouteWithGeography(NewRouteId, RouteParams(req[s].body, sortedPoints[s], Val(user[s])))}
               /\ routeId' = [routeId EXCEPT ![s] = NewRouteId]
          ELSE UNCHANGED <<routes, routeId>>
       /\ Await(s, "await_insert_points")
  /\ UNCHANGED <<route_points, route_tags, votes, req, user, fetched, sortedPoints, lastUpsert>>

\* await supabase.rpc('create_route_with_geography'), then the code up to the next await.
CreateRouteRpc(s) ==
  /\ pc[s] = "await_create_route"
  /\ \E ok \in BOOLEAN :
       /\ Called(s, "create_route_with_geography", ok)
       /\ IF ok
          THEN /\ routes' = routes \cup
                    {CreateRouteWithGeography(NewRouteId, RouteParams(req[s].body, sortedPoints[s], Val(user[s])))}
               /\ routeId' = [routeId EXCEPT ![s] = NewRouteId]
               /\ Await(s, "await_insert_points")
          ELSE /\ Respond(s, [status |-> 500, error |-> "Failed to create route",
                              details |-> "storage error"])
               /\ UNCHANGED <<routes, routeId>>
  /\ UNCHANGED <<route_points, route_tags, votes, req, user, fetched, sortedPoints, lastUpsert>>

\* InsertPointsRpc with a compensating delete of the route row in the pointsError branch.
InsertPointsRpcRollback(s) ==
  /\ pc[s] = "await_insert_points"
  /\ \E ok \in BOOLEAN :
       /\ Called(s, "insert_route_points", ok)
       /\ IF ok
          THEN /\ route_points' = route_points \o
                    InsertRoutePoints(routeId[s],
                       RoutePointsToInsert(sortedPoints[s]))
               /\ UNCHANGED routes
               /\ IF HasTags(req[s].body)
                  THEN Await(s, "await_insert_tags")
                  ELSE Respond(s, [status |-> 201, route_id |-> routeId[s]])
          ELSE /\ Respond(s, [status |-> 500, error |-> "Failed to insert route points",
                              details |-> "storage error"])
               /\ routes' = { r \in routes : r.id # routeId[s] }
               /\ UNCHANGED route_points
  /\ UNCHANGED <<route_tags, votes, req, user, routeId, fetched, sortedPoints, lastUpsert>>

\* InsertPointsRpc with pointsError only logged, as tagsError is.
InsertPointsRpcSwallow(s) ==
  /\ pc[s] = "await_insert_points"
  /\ \E ok \in BOOLEAN :
       /\ Called(s, "insert_route_points", ok)
       /\ route_points' = IF ok
                          THEN route_points \o
                                 InsertRoutePoints(routeId[s],
                                    RoutePointsToInsert(sortedPoints[s]))
                          ELSE route_points
       /\ IF HasTags(req[s].body)
          THEN Await(s, "await_insert_tags")
          ELSE Respond(s, [status |-> 201, route_id |-> routeId[s]])
  /\ UNCHANGED <<routes, route_tags, votes, req, user, routeId, fetched, sortedPoints, lastUpsert>>

\* await supabase.rpc('insert_route_points'), then the code up to the next await.
InsertPointsRpc(s) ==
  /\ pc[s] = "await_insert_points"
  /\ \E ok \in BOOLEAN :
       /\ Called(s, "insert_route_points", ok)
       /\ IF ok
          THEN /\ route_points' = route_points \o
                    InsertRoutePoints(routeId[s],
                       RoutePointsToInsert(sortedPoints[s]))
               /\ IF HasTags(req[s].body)
                  THEN Await(s, "await_insert_tags")
                  ELSE Respond(s, [status |-> 201, route_id |-> routeId[s]])
          ELSE /\ Respond(s, [status |-> 500, error |-> "Failed to insert route points",
                              details |-> "storage error"])
               /\ UNCHANGED route_points
  /\ UNCHANGED <<routes, route_tags, votes, req, user, routeId, fetched, sortedPoints, lastUpsert>>

\* InsertRouteTags with tagsError answered 500.
InsertRouteTagsFail(s) ==
  /\ pc[s] = "await_insert_tags"
  /\ \E ok \in BOOLEAN :
       /\ ok => \A i \in 1..Len(Val(req[s].body.tags)) :
                   \E t \in TagsTable : t.id = Val(req[s].body.tags)[i]
       /\ Called(s, "route_tags.insert", ok)
       /\ route_tags' = IF ok
                        THEN route_tags \o RouteTagsToInsert(routeId[s], Val(req[s].body.tags))
                        ELSE route_tags
       /\ IF ok
          THEN Respond(s, [status |-> 201, route_id |-> routeId[s]])
          ELSE Respond(s, [status |-> 500, error |-> "Failed to insert route tags",
                           details |-> "storage error"])
  /\ UNCHANGED <<routes, route_points, votes, req, user, routeId, fetched, sortedPoints, lastUpsert>>

\* await supabase.from('route_tags').insert(...): its error is only logged.
\* The insert can succeed only when every tag id is a row of tags (foreign key).
InsertRouteTags(s) ==
  /\ pc[s] = "await_insert_tags"
  /\ \E ok \in BOOLEAN :
       /\ ok => \A i \in 1..Len(Val(req[s].body.tags)) :
                   \E t \in TagsTable : t.id = Val(req[s].body.tags)[i]
       /\ Called(s, "route_tags.insert", ok)
       /\ route_tags' = IF ok
                        THEN route_tags \o RouteTagsToInsert(routeId[s], Val(req[s].body.tags))
                        ELSE route_tags
  /\ Respond(s, [status |-> 201, route_id |-> routeId[s]])
  /\ UNCHANGED <<routes, route_points, votes, req, user, routeId, fetched, sortedPoints, lastUpsert>>

\* ----------------------------------------------------------- vote aggregate

\* The binary exponent of k/200 (0 < k <= 200): the least j with k/200 >= 2^-j.
BinExp(k) == CHOOSE j \in 0..8 : k * 2^j >= 200 /\ (j = 0 \/ k * 2^(j - 1) < 200)

\* The double nearest to k/200 (k odd) is less than k/200: its 53-bit significand is
\* k * 2^(49 + BinExp(k)) / 25 rounded to the nearest integer, which rounds down when
\* the remainder of the division by 25 is at most 12 (2^20 = 1 modulo 25).
DoubleBelow(k) ==
  LET r == (k * 2^((49 + BinExp(k)) % 20)) % 25
  IN  r # 0 /\ r <= 12

\* ToFixed2 that does not divide by the count.
ToFixed2OfDifference(num, count) == 100 * num

\* parseFloat(((upvotes - downvotes) / count).toFixed(2)), in hundredths. The quotient
\* is the double nearest to num/count; toFixed keeps the sign and takes the integer n
\* with n/100 nearest to the magnitude of that double, the larger n when two are
\* equally near. Where num/count lies exactly between two hundredths, the double
\* decides: n is the lower one when the double is below num/count.
ToFixed2(num, count) ==
  LET mag == IF num < 0 THEN -num ELSE num
      m == (100 * mag) \div count
      rest == 200 * mag - 2 * m * count
      n == IF rest > count THEN m + 1
           ELSE IF rest < count THEN m
           ELSE IF DoubleBelow(2 * m + 1) THEN m ELSE m + 1
  IN  IF num < 0 THEN -n ELSE n

\* votes.filter(v => v.vote_type === t).length
CountType(vs, t) == Cardinality({ v \in vs : v.vote_type = t })

\* The totals computed from the rows of a votes select (vs = None: the select failed).
VoteTotalsOf(vs) ==
  IF vs = None
  THEN [vote_count |-> 0, upvotes |-> 0, downvotes |-> 0, avg_rating |-> 0]
  ELSE LET rows == Val(vs)
           n == Cardinality(rows)
           up == CountType(rows, "up")
           down == CountType(rows, "down")
       IN  [vote_count |-> n, upvotes |-> up, downvotes |-> down,
            avg_rating |-> IF n > 0 THEN ToFixed2(up - down, n) ELSE 0]

\* supabase.from('votes').select(...).eq('route_id', id)
VotesOfRoute(id) == { v \in votes : v.route_id = id }

\* ------------------------------------------ POST /routes/:id/vote (castVote)

VoteTypes == {"up", "down"}
Contexts == {"safety", "efficiency", "scenery"}

\* CastVoteStart with the route looked up before the enum checks.
CastVoteStartLookupFirst(s) ==
  /\ UNCHANGED sortedPoints
  /\ LET b == req[s].body IN
     IF FalsyStr(b.vote_type) \/ FalsyStr(b.context)
     THEN /\ Respond(s, [status |-> 400, error |-> "Missing required fields",
                         required |-> <<"vote_type", "context">>])
          /\ UNCHANGED calls
     ELSE /\ Called(s, "routes.select", TRUE)
          /\ IF Val(b.vote_type) \notin VoteTypes
             THEN Respond(s, [status |-> 400, error |-> "Invalid vote_type",
                              message |-> "vote_type must be 'up' or 'down'"])
             ELSE IF Val(b.context) \notin Contexts
             THEN Respond(s, [status |-> 400, error |-> "Invalid context",
                              message |-> "context must be 'safety', 'efficiency', or 'scenery'"])
             ELSE Await(s, "await_vote_upsert")

\* CastVoteStart with the context checked before the vote_type.
CastVoteStartContextFirst(s) ==
  /\ UNCHANGED <<calls, sortedPoints>>
  /\ LET b == req[s].body IN
     IF FalsyStr(b.vote_type) \/ FalsyStr(b.context)
     THEN Respond(s, [status |-> 400, error |-> "Missing required fields",
                      required |-> <<"vote_type", "context">>])
     ELSE IF Val(b.context) \notin Contexts
     THEN Respond(s, [status |-> 400, error |-> "Invalid context",
                      message |-> "context must be 'safety', 'efficiency', or 'scenery'"])
     ELSE IF Val(b.vote_type) \notin VoteTypes
     THEN Respond(s, [status |-> 400, error |-> "Invalid vote_type",
                      message |-> "vote_type must be 'up' or 'down'"])
     ELSE Await(s, "await_route_check")

\* The handler up to its first await: the field and enum checks.
CastVoteStart(s) ==
  /\ UNCHANGED <<calls, sortedPoints>>
  /\ LET b == req[s].body IN
     IF FalsyStr(b.vote_type) \/ FalsyStr(b.context)
     THEN Respond(s, [status |-> 400, error |-> "Missing required fields",
                      required |-> <<"vote_type", "context">>])
     ELSE IF Val(b.vote_type) \notin VoteTypes
     THEN Respond(s, [status |-> 400, error |-> "Invalid vote_type",
                      message |-> "vote_type must be 'up' or 'down'"])
     ELSE IF Val(b.context) \notin Contexts
     THEN Respond(s, [status |-> 400, error |-> "Invalid context",
                      message |-> "context must be 'safety', 'efficiency', or 'scenery'"])
     ELSE Await(s, "await_route_check")

\* ActiveRoutesWithId without the is_active filter.
RoutesWithId(id) == { r \in routes : r.id = id }

\* .from('routes').select(...).eq('id', id).eq('is_active', true)
ActiveRoutesWithId(id) == { r \in routes : r.id = id /\ r.is_active }

\* await the select of the active route: any error, or no row, answers 404.
RouteCheck(s) ==
  /\ pc[s] = "await_route_check"
  /\ \E ok \in BOOLEAN :
       /\ Called(s, "routes.select", ok)
       /\ IF ok /\ ActiveRoutesWithId(req[s].id) # {}
          THEN Await(s, "await_vote_upsert")
          ELSE Respond(s, [status |-> 404, error |-> "Route not found",
                           message |-> "No active route found with id"])
  /\ UNCHANGED <<storage, req, user, routeId, fetched, sortedPoints, lastUpsert>>

\* A conflict target that also compares the context.
ConflictKeyWithContext(v, w) ==
  v.route_id = w.route_id /\ v.user_id = w.user_id /\ v.context = w.context

\* onConflict: 'route_id,user_id'
ConflictKey(v, w) == v.route_id = w.route_id /\ v.user_id = w.user_id

\* upsert(row, {onConflict}): the row replaces the row it conflicts with, if any.
Upsert(table, row) == { v \in table : ~ConflictKey(v, row) } \cup {row}

\* VoteRow with the user_id of the request body.
VoteRowFromBody(s) ==
  [route_id |-> req[s].id, user_id |-> Val(req[s].body.user_id),
   vote_type |-> Val(req[s].body.vote_type), context |-> Val(req[s].body.context)]

\* { route_id: id, user_id, vote_type, context }
VoteRow(s) ==
  [route_id |-> req[s].id, user_id |-> Val(user[s]),
   vote_type |-> Val(req[s].body.vote_type), context |-> Val(req[s].body.context)]

\* await supabase.from('votes').upsert(...)
VoteUpsert(s) ==
  /\ pc[s] = "await_vote_upsert"
  /\ \E ok \in BOOLEAN :
       /\ Called(s, "votes.upsert", ok)
       /\ IF ok
          THEN /\ votes' = Upsert(votes, VoteRow(s))
               /\ lastUpsert' = [lastUpsert EXCEPT ![<<req[s].id, Val(user[s])>>] = Some(VoteRow(s))]
               /\ Await(s, "await_vote_totals")
          ELSE /\ Respond(s, [status |-> 500, error |-> "Failed to record vote",
                              message |-> "storage error"])
               /\ UNCHANGED <<votes, lastUpsert>>
  /\ UNCHANGED <<routes, route_points, route_tags, req, user, routeId, fetched, sortedPoints>>

\* await the select of the route's votes, then the 201 with the totals.
VoteTotals(s) ==
  /\ pc[s] = "await_vote_totals"
  /\ \E ok \in BOOLEAN :
       /\ Called(s, "votes.select", ok)
       /\ LET t == VoteTotalsOf(IF ok THEN Some(VotesOfRoute(req[s].id)) ELSE None)
          IN  Respond(s, [status |-> 201, message |-> "Vote recorded successfully",
                          route_id |-> req[s].id,
                          vote_type |-> Val(req[s].body.vote_type),
                          context |-> Val(req[s].body.context),
                          vote_count |-> t.vote_count, upvotes |-> t.upvotes,
                          downvotes |-> t.downvotes, avg_rating |-> t.avg_rating])
  /\ UNCHANGED <<storage, req, user, routeId, fetched, sortedPoints, lastUpsert>>

\* -------------------------------------------------- GET /routes/:id (getRoute)

\* A number read from a nullable column, in arithmetic: null counts as 0.
NumOrZero(o) == IF o = None THEN 0 ELSE Val(o)

\* p goes behind every row whose sequence is not greater (a.sequence - b.sequence).
InsertBySequence(p, sorted) ==
  LET keep == { i \in 1..Len(sorted) : NumOrZero(sorted[i].sequence) - NumOrZero(p.sequence) <= 0 }
      n == Cardinality(keep)
  IN  SubSeq(sorted, 1, n) \o <<p>> \o SubSeq(sorted, n + 1, Len(sorted))

RECURSIVE SortBySequence(_)
\* route.route_points.sort((a, b) => a.sequence - b.sequence)
SortBySequence(rows) ==
  IF rows = <<>> THEN <<>>
  ELSE InsertBySequence(rows[Len(rows)], SortBySequence(SubSeq(rows, 1, Len(rows) - 1)))

\* select(`*, route_points(*), route_tags(tags(name))`): the row with its embedded rows.
RouteWithEmbedded(r) ==
  LET OfRoute(x) == x.route_id = r.id
      rts == SelectSeq(route_tags, OfRoute)
  IN  [route |-> r,
       route_points |-> SelectSeq(route_points, OfRoute),
       route_tags |-> [i \in 1..Len(rts) |->
                         { t.name : t \in { x \in TagsTable : x.id = rts[i].tag_id } }]]

\* The route_points of the response: sorted by sequence, then mapped.
ResponsePoints(rows) ==
  LET sorted == SortBySequence(rows)
  IN  [i \in 1..Len(sorted) |->
         [seq |-> sorted[i].sequence, lat |-> sorted[i].lat, lng |-> sorted[i].lng,
          accuracy_meters |-> sorted[i].accuracy_meters,
          recorded_at |-> sorted[i].recorded_at]]

\* route.route_tags.map(rt => rt.tags?.name).filter(Boolean)
ResponseTags(rts) ==
  LET named == SelectSeq(rts, LAMBDA o : o # None /\ o # Some(""))
  IN  [i \in 1..Len(named) |-> Val(named[i])]

\* await the select of the active route with its points and tags (.single()).
GetRouteSelect(s) ==
  /\ pc[s] = "await_route_select"
  /\ \E ok \in BOOLEAN :
       /\ Called(s, "routes.select", ok)
       /\ IF ~ok
          THEN /\ Respond(s, [status |-> 500, error |-> "Failed to fetch route",
                              message |-> "storage error"])
               /\ UNCHANGED fetched
          ELSE IF ActiveRoutesWithId(req[s].id) = {}
          THEN /\ Respond(s, [status |-> 404, error |-> "Route not found",
                              message |-> "No active route found with id"])
               /\ UNCHANGED fetched
          ELSE /\ fetched' = [fetched EXCEPT ![s] =
                     Some(RouteWithEmbedded(CHOOSE r \in ActiveRoutesWithId(req[s].id) : TRUE))]
               /\ Await(s, "await_votes_select")
  /\ UNCHANGED <<storage, req, user, routeId, sortedPoints, lastUpsert>>

\* await the select of the route's votes, then the 200 with the full route.
GetRouteVotes(s) ==
  /\ pc[s] = "await_votes_select"
  /\ \E ok \in BOOLEAN :
       /\ Called(s, "votes.select", ok)
       /\ LET t == VoteTotalsOf(IF ok THEN Some(VotesOfRoute(req[s].id)) ELSE None)
              f == Val(fetched[s])
          IN  Respond(s, [status |-> 200, route |-> f.route,
                          avg_rating |-> t.avg_rating, vote_count |-> t.vote_count,
                          tags |-> ResponseTags(f.route_tags),
                          route_points |-> ResponsePoints(f.route_points)])
  /\ UNCHANGED <<storage, req, user, routeId, fetched, sortedPoints, lastUpsert>>

\* ------------------------------------------------- GET /routes (listRoutes)

\* s.trim() of the strings the requests carry.
Trim(str) ==
  CASE str = " Shade" -> "Shade"
    [] str = "quiet " -> "quiet"
    [] OTHER -> str

\* s.toLowerCase() of the strings the requests and the tags table carry.
ToLowerCase(str) ==
  CASE str = "Shade" -> "shade"
    [] str = "SHADE" -> "shade"
    [] str = "Quiet" -> "quiet"
    [] str = "QUIET" -> "quiet"
    [] OTHER -> str

\* parseFloat(s) of the strings the requests carry, in hundredths; NaN (null in the
\* JSON of the response) is None.
ParseFloat(str) ==
  CASE str = "30.28" -> Some(3028)
    [] str = "-97.73" -> Some(-9773)
    [] str = "250.7" -> Some(25070)
    [] str = "1000" -> Some(100000)
    [] OTHER -> None

\* parseInt(s) of the strings the requests carry; NaN is None.
ParseInt(str) ==
  CASE str = "250.7" -> Some(250)
    [] str = "1000" -> Some(1000)
    [] str = "500" -> Some(500)
    [] OTHER -> None

\* A tags parameter is held as the segments between its commas; "" is falsy.
NoTagsParam(tags) == tags = None \/ tags = Some(<<"">>)

\* tags.split(',').map(t => t.trim().toLowerCase())
TagArray(tags) == { ToLowerCase(Trim(Val(tags)[i])) : i \in 1..Len(Val(tags)) }

RECURSIVE Selections(_, _)
\* The ways to leave k rows out of a set of rows.
Selections(rows, k) ==
  IF k = 0 THEN {rows} ELSE UNION { Selections(rows \ {x}, k - 1) : x \in rows }

\* LimitOutcomes without the limit.
LimitOutcomesUnlimited == { { r \in routes : r.is_active } }

\* .eq('is_active', true) ... .limit(100): the row sets the select can return.
LimitOutcomes ==
  LET active == { r \in routes : r.is_active }
      n == Cardinality(active)
  IN  Selections(active, IF n > Limit THEN n - Limit ELSE 0)

\* The rows of a select as an array (in the order of their ids).
RowsById(rows) ==
  LET ids == { r.id : r \in rows }
      last == IF ids = {} THEN 0 ELSE CHOOSE m \in ids : \A o \in ids : o <= m
      ordered == SelectSeq([k \in 1..last |-> k], LAMBDA k : k \in ids)
  IN  [i \in 1..Len(ordered) |-> CHOOSE r \in rows : r.id = ordered[i]]

\* routes.map(route => ...): the entry of a fetched route, with its vote statistics.
Transform(row, votesData) ==
  LET mine == { v \in votesData : v.route_id = row.route.id }
      up == CountType(mine, "up")
      down == CountType(mine, "down")
      total == Cardinality(mine)
  IN  [id |-> row.route.id, title |-> row.route.title,
       start_label |-> row.route.start_label, end_label |-> row.route.end_label,
       distance_meters |-> row.route.distance_meters,
       avg_rating |-> IF total > 0 THEN ToFixed2(up - down, total) ELSE 0,
       tags |-> ResponseTags(row.route_tags),
       preview_polyline |-> None,
       created_at |-> row.route.created_at,
       vote_count |-> total]

\* MatchesTags comparing the tag names as stored, without toLowerCase.
MatchesTagsExact(entry, tagArray) ==
  \E i \in 1..Len(entry.tags) : entry.tags[i] \in tagArray

\* route.tags.some(tag => tagArray.includes(tag.toLowerCase()))
MatchesTags(entry, tagArray) ==
  \E i \in 1..Len(entry.tags) : ToLowerCase(entry.tags[i]) \in tagArray

\* The comparator of transformedRoutes.sort for the sort parameter.
CompareRoutes(sort, a, b) ==
  CASE sort = "popular" -> b.vote_count - a.vote_count
    [] sort = "efficient" -> NumOrZero(a.distance_meters) - NumOrZero(b.distance_meters)
    [] OTHER -> b.created_at - a.created_at

\* Where entries[i] stands after a stable sort: behind the entries that compare
\* smaller, and behind the earlier ones that compare equal.
RankOf(sort, entries, i) ==
  1 + Cardinality({ j \in 1..Len(entries) :
                      \/ CompareRoutes(sort, entries[j], entries[i]) < 0
                      \/ (j < i /\ CompareRoutes(sort, entries[j], entries[i]) = 0) })

\* transformedRoutes.sort(...): stable (the comparator is consistent, its keys being
\* numbers).
SortRoutes(sort, entries) ==
  LET placed == { <<RankOf(sort, entries, i), i>> : i \in 1..Len(entries) }
  IN  [k \in 1..Len(entries) |-> entries[(CHOOSE p \in placed : p[1] = k)[2]]]

\* ({ vote_count, ...route }) => route
WithoutVoteCount(e) ==
  [id |-> e.id, title |-> e.title, start_label |-> e.start_label, end_label |-> e.end_label,
   distance_meters |-> e.distance_meters, avg_rating |-> e.avg_rating, tags |-> e.tags,
   preview_polyline |-> e.preview_polyline, created_at |-> e.created_at]

\* ListResponse with the radius applied to the routes when a latitude is supplied.
ListResponseNear(q, rows, votesData) ==
  LET sort == IF q.sort = None THEN "recent" ELSE Val(q.sort)
      radius == IF q.radius = None THEN Some(500) ELSE ParseInt(Val(q.radius))
      transformed == [i \in 1..Len(rows) |-> Transform(rows[i], votesData)]
      near == SelectSeq(transformed,
                        LAMBDA e : FalsyStr(q.lat) \/ radius = None
                                     \/ NumOrZero(e.distance_meters) <= Val(radius))
      filtered == SelectSeq(near,
                            LAMBDA e : NoTagsParam(q.tags) \/ MatchesTags(e, TagArray(q.tags)))
      sorted == SortRoutes(sort, filtered)
      finalRoutes == [i \in 1..Len(sorted) |-> WithoutVoteCount(sorted[i])]
  IN  [status |-> 200, data |-> finalRoutes, count |-> Len(finalRoutes),
       filters |-> [lat |-> IF FalsyStr(q.lat) THEN None ELSE ParseFloat(Val(q.lat)),
                    lng |-> IF FalsyStr(q.lng) THEN None ELSE ParseFloat(Val(q.lng)),
                    radius |-> radius,
                    tags |-> IF NoTagsParam(q.tags) THEN None ELSE q.tags,
                    sort |-> sort]]

\* The 200 of GET /routes for the query q, the fetched rows and the votes read.
ListResponse(q, rows, votesData) ==
  LET sort == IF q.sort = None THEN "recent" ELSE Val(q.sort)
      radius == IF q.radius = None THEN Some(500) ELSE ParseInt(Val(q.radius))
      transformed == [i \in 1..Len(rows) |-> Transform(rows[i], votesData)]
      filtered == SelectSeq(transformed,
                            LAMBDA e : NoTagsParam(q.tags) \/ MatchesTags(e, TagArray(q.tags)))
      sorted == SortRoutes(sort, filtered)
      finalRoutes == [i \in 1..Len(sorted) |-> WithoutVoteCount(sorted[i])]
  IN  [status |-> 200, data |-> finalRoutes, count |-> Len(finalRoutes),
       filters |-> [lat |-> IF FalsyStr(q.lat) THEN None ELSE ParseFloat(Val(q.lat)),
                    lng |-> IF FalsyStr(q.lng) THEN None ELSE ParseFloat(Val(q.lng)),
                    radius |-> radius,
                    tags |-> IF NoTagsParam(q.tags) THEN None ELSE q.tags,
                    sort |-> sort]]

\* await the select of the active routes with their tags, limited to 100 rows; with
\* no row the votes are not read and the response follows at once.
ListRoutesSelect(s) ==
  /\ pc[s] = "await_routes_list"
  /\ \E ok \in BOOLEAN :
       /\ Called(s, "routes.select", ok)
       /\ IF ~ok
          THEN /\ Respond(s, [status |-> 500, error |-> "Failed to fetch routes",
                              details |-> "storage error"])
               /\ UNCHANGED fetched
          ELSE \E selected \in LimitOutcomes :
                 LET byId == RowsById(selected)
                     rows == [i \in 1..Len(byId) |-> RouteWithEmbedded(byId[i])]
                 IN  /\ fetched' = [fetched EXCEPT ![s] = Some(rows)]
                     /\ IF rows = <<>>
                        THEN Respond(s, ListResponse(req[s].query, rows, {}))
                        ELSE Await(s, "await_list_votes")
  /\ UNCHANGED <<storage, req, user, routeId, sortedPoints, lastUpsert>>

\* await the select of the votes of the fetched routes (an error leaves votesData
\* empty), then the 200.
ListRoutesVotes(s) ==
  /\ pc[s] = "await_list_votes"
  /\ \E ok \in BOOLEAN :
       /\ Called(s, "votes.select", ok)
       /\ LET rows == Val(fetched[s])
              routeIds == { rows[i].route.id : i \in 1..Len(rows) }
              votesData == IF ok THEN { v \in votes : v.route_id \in routeIds } ELSE {}
          IN  Respond(s, ListResponse(req[s].query, rows, votesData))
  /\ UNCHANGED <<storage, req, user, routeId, fetched, sortedPoints, lastUpsert>>

\* ------------------------------------- POST /routes/:id/comments (addComment)

\* The placeholder handler: res.status(201).json({}).
AddCommentStart(s) ==
  /\ Respond(s, [status |-> 201])
  /\ UNCHANGED <<calls, sortedPoints>>

\* ------------------------------------------------------ the users router

\* The tables the users router reads; no handler writes them.
Profiles == { [id |-> "u1", email |-> "u1@school.edu", full_name |-> "U One", created_at |-> 1] }
RouteUsage == { [user_id |-> "u1", route_id |-> 2] }
Friends ==
  { [requester_id |-> "u1", addressee_id |-> "u2", status |-> "accepted"],
    [requester_id |-> "u2", addressee_id |-> "u1", status |-> "pending"] }

\* POST /users/friends/request, the placeholder handler: res.status(201).json({}).
FriendRequestStart(s) ==
  /\ Respond(s, [status |-> 201])
  /\ UNCHANGED <<calls, sortedPoints>>

\* GET /users/me up to its first await.
GetMeStart(s) ==
  /\ Await(s, "await_profile")
  /\ UNCHANGED <<calls, sortedPoints>>

\* await the select of the profile (.single()): an error or no row answers 404.
MeProfile(s) ==
  /\ pc[s] = "await_profile"
  /\ \E ok \in BOOLEAN :
       /\ Called(s, "profiles.select", ok)
       /\ LET found == { p \in Profiles : p.id = Val(user[s]) } IN
          IF ok /\ found # {}
          THEN /\ fetched' = [fetched EXCEPT ![s] = Some([profile |-> Val(found)])]
               /\ Await(s, "await_routes_count")
          ELSE /\ Respond(s, [status |-> 404, error |-> "User not found",
                              message |-> "Could not find user profile"])
               /\ UNCHANGED fetched
  /\ UNCHANGED <<storage, req, user, routeId, sortedPoints, lastUpsert>>

\* x || 0 for a count that is null after an error.
CountOrZero(o) == IF FalsyNum(o) THEN 0 ELSE Val(o)

\* await the count of the user's active routes: an error is only logged.
MeRoutesCount(s) ==
  /\ pc[s] = "await_routes_count"
  /\ \E ok \in BOOLEAN :
       /\ Called(s, "routes.count", ok)
       /\ LET n == Cardinality({ r \in routes : r.creator_id = Val(user[s]) /\ r.is_active })
              f == Val(fetched[s])
          IN  fetched' = [fetched EXCEPT ![s] =
                Some([profile |-> f.profile, routesCreated |-> IF ok THEN Some(n) ELSE None])]
  /\ Await(s, "await_usage_count")
  /\ UNCHANGED <<storage, req, user, routeId, sortedPoints, lastUpsert>>

\* await the count of the user's route_usage rows: an error is only logged.
MeUsageCount(s) ==
  /\ pc[s] = "await_usage_count"
  /\ \E ok \in BOOLEAN :
       /\ Called(s, "route_usage.count", ok)
       /\ LET n == Cardinality({ u \in RouteUsage : u.user_id = Val(user[s]) })
              f == Val(fetched[s])
          IN  fetched' = [fetched EXCEPT ![s] =
                Some([profile |-> f.profile, routesCreated |-> f.routesCreated,
                      routesSaved |-> IF ok THEN Some(n) ELSE None])]
  /\ Await(s, "await_friends")
  /\ UNCHANGED <<storage, req, user, routeId, sortedPoints, lastUpsert>>

\* await the select of the accepted friendships, then the 200 with the profile and stats.
MeFriends(s) ==
  /\ pc[s] = "await_friends"
  /\ \E ok \in BOOLEAN :
       /\ Called(s, "friends.select", ok)
       /\ LET friendsData == { x \in Friends :
                                 /\ x.requester_id = Val(user[s]) \/ x.addressee_id = Val(user[s])
                                 /\ x.status = "accepted" }
              f == Val(fetched[s])
          IN  Respond(s, [status |-> 200, id |-> f.profile.id, email |-> f.profile.email,
                          display_name |-> f.profile.full_name,
                          created_at |-> f.profile.created_at,
                          stats |-> [routes_created |-> CountOrZero(f.routesCreated),
                                     routes_saved |-> CountOrZero(f.routesSaved),
                                     friends_count |-> IF ok THEN Cardinality(friendsData)
                                                       ELSE 0]])
  /\ UNCHANGED <<storage, req, user, routeId, fetched, sortedPoints, lastUpsert>>

\* ------------------------------------------------------------- requireAuth

\* next(): the route handler runs up to its first await.
HandlerStart(s) ==
  CASE req[s].ep = "createRoute" -> CreateRouteStart(s)
    [] req[s].ep = "castVote" -> CastVoteStart(s)
    [] req[s].ep = "addComment" -> AddCommentStart(s)
    [] req[s].ep = "getMe" -> GetMeStart(s)
    [] req[s].ep = "friendRequest" -> FriendRequestStart(s)

\* RequireAuth without the test of the 'Bearer ' prefix.
RequireAuthAnyScheme(s) ==
  /\ pc[s] = "auth"
  /\ LET authHeader == req[s].auth IN
     IF authHeader = None
     THEN /\ Respond(s, [status |-> 401, error |-> "Authentication required",
                         message |-> "Missing or malformed Authorization header"])
          /\ UNCHANGED <<user, calls, sortedPoints>>
     ELSE LET got == GetUser(Val(authHeader).token) IN
          IF got = None
          THEN /\ Respond(s, [status |-> 401, error |-> "Invalid token",
                              message |-> "The provided token is invalid or has expired."])
               /\ UNCHANGED <<user, calls, sortedPoints>>
          ELSE /\ user' = [user EXCEPT ![s] = got]
               /\ HandlerStart(s)
  /\ UNCHANGED <<storage, req, routeId, fetched, lastUpsert>>

\* await supabase.auth.getUser(token), then 401 or req.user and next().
RequireAuth(s) ==
  /\ pc[s] = "auth"
  /\ LET authHeader == req[s].auth IN
     IF authHeader = None \/ Val(authHeader).scheme # "Bearer"
     THEN /\ Respond(s, [status |-> 401, error |-> "Authentication required",
                         message |-> "Missing or malformed Authorization header"])
          /\ UNCHANGED <<user, calls, sortedPoints>>
     ELSE LET got == GetUser(Val(authHeader).token) IN
          IF got = None
          THEN /\ Respond(s, [status |-> 401, error |-> "Invalid token",
                              message |-> "The provided token is invalid or has expired."])
               /\ UNCHANGED <<user, calls, sortedPoints>>
          ELSE /\ user' = [user EXCEPT ![s] = got]
               /\ HandlerStart(s)
  /\ UNCHANGED <<storage, req, routeId, fetched, lastUpsert>>

\* ------------------------------------------------------------------ router

\* The endpoints behind requireAuth: the three POST routes of the routes router and
\* the whole users router.
Protected == {"createRoute", "castVote", "addComment", "getMe", "friendRequest"}

\* Where a public handler stands at its first await.
PublicStart(ep) == IF ep = "listRoutes" THEN "await_routes_list" ELSE "await_route_select"

\* A request r arrives on a free slot: the router runs requireAuth first on the
\* protected endpoints, and the handler directly on the public ones.
Receive(s, r) ==
  /\ pc[s] = "idle"
  /\ req' = [req EXCEPT ![s] = r]
  /\ pc' = [pc EXCEPT ![s] = IF r.ep \in Protected THEN "auth" ELSE PublicStart(r.ep)]
  /\ UNCHANGED <<storage, user, routeId, res, fetched, sortedPoints, calls, lastUpsert>>

\* ---------------------------------------------------------------- requests

Bearer(token) == Some([scheme |-> "Bearer", token |-> token])

P1 == << Pt(Some(1), Some(30), Some(-97), Some("10:00:00.000")) >>
P21 == << Pt(Some(2), Some(31), Some(-96), Some("10:01:00.000")),
          Pt(Some(1), Some(30), Some(-97), Some("10:00:00.000")) >>

BaseBody ==
  [title |-> Some("T"), description |-> None, start_label |-> Some("A"),
   end_label |-> Some("B"), start_time |-> Some("10:00:00.000"),
   end_time |-> Some("10:01:00.000"), tags |-> None, points |-> Some(P1)]

CreateReq(auth, body) == [ep |-> "createRoute", auth |-> auth, id |-> 0, body |-> body]
VoteReq(auth, id, vt, ctx) ==
  [ep |-> "castVote", auth |-> auth, id |-> id, body |-> [vote_type |-> vt, context |-> ctx]]
GetReq(id) == [ep |-> "getRoute", auth |-> None, id |-> id, body |-> None]

CommentReq(auth, id) == [ep |-> "addComment", auth |-> auth, id |-> id, body |-> None]
MeReq(auth) == [ep |-> "getMe", auth |-> auth, id |-> 0, body |-> None]
FriendReq(auth) == [ep |-> "friendRequest", auth |-> auth, id |-> 0, body |-> None]

\* A query string without parameters.
NoQuery ==
  [lat |-> None, lng |-> None, radius |-> None, dest_lat |-> None, dest_lng |-> None,
   tags |-> None, sort |-> None]

ListReq(auth, query) ==
  [ep |-> "listRoutes", auth |-> auth, id |-> 0, body |-> None, query |-> query]

\* The requests of the mixed workload: route creation with concurrent reads and votes.
Requests ==
  { CreateReq(Bearer("t1"), b) :
      b \in { BaseBody,
              [BaseBody EXCEPT !.points = Some(P21), !.tags = Some(<<"tagA", "tagB">>)],
              [BaseBody EXCEPT !.tags = Some(<<"tagX">>)],
              [BaseBody EXCEPT !.title = None],
              [BaseBody EXCEPT !.points = Some(<<>>)] } }
  \cup { CreateReq(None, BaseBody) }
  \cup { GetReq(id) : id \in {3, 4} }
  \cup { VoteReq(Bearer("t2"), 1, Some("up"), Some("safety")),
         VoteReq(Bearer("t2"), 1, Some("up"), None),
         VoteReq(Bearer("t2"), 1, Some("sideways"), Some("safety")),
         VoteReq(Bearer("t2"), 1, Some("up"), Some("speed")) }

\* The requests of the voting workload.
VoteRequests ==
  { VoteReq(Bearer(t), id, Some(v[1]), Some(v[2])) :
      t \in {"t1", "t2"}, id \in {1, 2},
      v \in {<<"up", "safety">>, <<"down", "scenery">>} }
  \cup { VoteReq(Bearer("t1"), 3, Some("up"), Some("safety")) }

\* Authorization headers: none, another scheme, a token the provider rejects, and
\* the tokens of the two users.
BadHeaders == { None, Some([scheme |-> "Basic", token |-> "t1"]), Bearer("expired") }

\* A createRoute body and a castVote body that name another user.
SpoofedCreateBody ==
  [title |-> Some("T"), description |-> None, start_label |-> Some("A"),
   end_label |-> Some("B"), start_time |-> Some("10:00:00.000"),
   end_time |-> Some("10:01:00.000"), tags |-> None, points |-> Some(P1),
   creator_id |-> Some("u2"), user_id |-> Some("u2")]

SpoofedVoteBody(other) ==
  [vote_type |-> Some("up"), context |-> Some("safety"), user_id |-> Some(other)]

\* The requests of the authentication workload: every endpoint, with and without a
\* valid bearer token.
AuthRequests ==
  { CreateReq(h, SpoofedCreateBody) : h \in BadHeaders \cup {Bearer("t1")} }
  \cup { [ep |-> "castVote", auth |-> h, id |-> 1, body |-> SpoofedVoteBody("u2")] :
           h \in BadHeaders \cup {Bearer("t1")} }
  \cup { [ep |-> "castVote", auth |-> Bearer("t2"), id |-> 1, body |-> SpoofedVoteBody("u1")] }
  \cup { CommentReq(h, 1) : h \in BadHeaders \cup {Bearer("t1")} }
  \cup { MeReq(h) : h \in BadHeaders \cup {Bearer("t1"), Bearer("t2")} }
  \cup { FriendReq(h) : h \in BadHeaders \cup {Bearer("t1")} }
  \cup { GetReq(1), [GetReq(1) EXCEPT !.auth = Bearer("expired")],
         ListReq(None, NoQuery), ListReq(Bearer("expired"), NoQuery) }

\* The requests of the vote-checking workload: vote_type and context absent, outside
\* the enumeration or valid, on an active route, a soft-deleted one and an id no route has.
CheckRequests ==
  { VoteReq(Bearer("t1"), id, vt, ctx) :
      id \in {1, 3, 9},
      vt \in {None, Some("sideways"), Some("up")},
      ctx \in {None, Some("speed"), Some("safety")} }

\* The requests of the validation workload: every combination of absent, empty and
\* present required fields, and point lists with an incomplete or out-of-range point.
FieldBodies ==
  { [title |-> ti, description |-> None, start_label |-> sl, end_label |-> el,
     start_time |-> st, end_time |-> et, tags |-> None, points |-> ps] :
      ti \in {None, Some(""), Some("T")}, sl \in {None, Some(""), Some("A")},
      el \in {None, Some(""), Some("B")},
      st \in {None, Some(""), Some("10:00:00.000")},
      et \in {None, Some(""), Some("10:01:00.000")},
      ps \in {None, Some(<<>>), Some(P1)} }

\* Three points, two of them with the same seq.
PTie == << Pt(Some(2), Some(31), Some(-96), Some("10:01:00.000")),
           Pt(Some(1), Some(30), Some(-97), Some("10:00:00.000")),
           Pt(Some(1), Some(32), Some(-95), Some("10:00:59.500")) >>

\* Three points, the second one without a seq.
PNoSeq == << Pt(Some(2), Some(31), Some(-96), Some("10:01:00.000")),
             Pt(None, Some(32), Some(-95), Some("10:00:59.500")),
             Pt(Some(1), Some(30), Some(-97), Some("10:00:00.000")) >>

PointLists ==
  { P1, P21, PTie, PNoSeq,
    << Pt(Some(1), None, Some(-97), Some("10:00:00.000")) >>,
    << Pt(Some(1), Some(30), None, Some("10:00:00.000")) >>,
    << Pt(Some(1), Some(30), Some(-97), None) >>,
    << Pt(Some(1), Some(91), Some(-97), Some("10:00:00.000")) >>,
    << Pt(Some(1), Some(-91), Some(-97), Some("10:00:00.000")) >>,
    << Pt(Some(1), Some(30), Some(181), Some("10:00:00.000")) >>,
    << Pt(Some(1), Some(30), Some(-97), Some("10:00:00.000")),
       Pt(Some(2), Some(30), Some(-181), Some("10:01:00.000")) >> }

\* start_time and end_time a whole or a fractional number of seconds apart, in
\* either order.
TimePairs ==
  { <<"10:00:00.000", "10:00:59.500">>, <<"10:00:59.500", "10:00:00.000">>,
    <<"10:01:00.000", "10:00:00.000">>, <<"10:00:59.500", "10:00:59.500">> }

InputRequests ==
  { CreateReq(Bearer("t1"), b) : b \in FieldBodies }
  \cup { CreateReq(Bearer("t1"),
                   [BaseBody EXCEPT !.start_time = Some(tp[1]), !.end_time = Some(tp[2])]) :
           tp \in TimePairs }
  \cup { CreateReq(Bearer("t1"), [BaseBody EXCEPT !.points = Some(ps), !.tags = tg]) :
           ps \in PointLists, tg \in {None, Some(<<"tagA">>)} }

\* ----------------------------------------------------------- specifications

Next ==
  \E s \in Slots :
    \/ \E r \in Requests : Receive(s, r)
    \/ RequireAuth(s)
    \/ CreateRouteRpc(s)
    \/ InsertPointsRpc(s)
    \/ InsertRouteTags(s)
    \/ RouteCheck(s)
    \/ VoteUpsert(s)
    \/ VoteTotals(s)
    \/ GetRouteSelect(s)
    \/ GetRouteVotes(s)

Spec == Init /\ [][Next]_vars

NextVote ==
  \E s \in Slots :
    \/ \E r \in VoteRequests : Receive(s, r)
    \/ RequireAuth(s)
    \/ RouteCheck(s)
    \/ VoteUpsert(s)
    \/ VoteTotals(s)

SpecVote == Init /\ [][NextVote]_vars

\* The requests of the feed workload: GET /routes without parameters, and by
\* popularity with a tag filter.
FeedRequests ==
  { ListReq(None, NoQuery),
    ListReq(None, [NoQuery EXCEPT !.sort = Some("popular"),
                                  !.tags = Some(<<" Shade", "none">>)]) }

\* One GET /routes at a time over the large storage.
NextFeed ==
  \/ \E r \in FeedRequests : Receive(1, r)
  \/ ListRoutesSelect(1)
  \/ ListRoutesVotes(1)

SpecFeed == InitFeed /\ [][NextFeed]_vars

\* Every endpoint of the routes router and of the users router, behind the mounts.
NextAuth ==
  \E s \in Slots :
    \/ \E r \in AuthRequests : Receive(s, r)
    \/ RequireAuth(s)
    \/ CreateRouteRpc(s)
    \/ InsertPointsRpc(s)
    \/ RouteCheck(s)
    \/ VoteUpsert(s)
    \/ VoteTotals(s)
    \/ GetRouteSelect(s)
    \/ GetRouteVotes(s)
    \/ ListRoutesSelect(s)
    \/ ListRoutesVotes(s)
    \/ MeProfile(s)
    \/ MeRoutesCount(s)
    \/ MeUsageCount(s)
    \/ MeFriends(s)

SpecAuth == Init /\ [][NextAuth]_vars

NextCheck ==
  \E s \in Slots :
    \/ \E r \in CheckRequests : Receive(s, r)
    \/ RequireAuth(s)
    \/ RouteCheck(s)
    \/ VoteUpsert(s)
    \/ VoteTotals(s)

SpecCheck == Init /\ [][NextCheck]_vars

\* One createRoute request at a time, over the validation workload.
NextInput ==
  \/ \E r \in InputRequests : Receive(1, r)
  \/ RequireAuth(1)
  \/ CreateRouteRpc(1)
  \/ InsertPointsRpc(1)
  \/ InsertRouteTags(1)

SpecInput == Init /\ [][NextInput]_vars

\* A small storage for GET /routes: four active routes and a soft-deleted one, whose
\* distances, creation times, vote counts and tags each order the routes differently
\* from their ids, with a tie under every criterion and one distance that is null.
ListRoute(id, distance_meters, created_at, is_active) ==
  [SeedRoute(id, "u1", "Listed", is_active) EXCEPT
     !.distance_meters = distance_meters, !.created_at = created_at]

ListRoutes ==
  { ListRoute(1, Some(500), 3, TRUE), ListRoute(2, Some(200), 1, TRUE),
    ListRoute(3, Some(200), 4, TRUE), ListRoute(4, Some(100), 5, FALSE),
    ListRoute(5, None, 1, TRUE) }

ListVotes ==
  { [route_id |-> 1, user_id |-> "u1", vote_type |-> "up", context |-> "safety"],
    [route_id |-> 2, user_id |-> "u1", vote_type |-> "up", context |-> "safety"],
    [route_id |-> 2, user_id |-> "u2", vote_type |-> "down", context |-> "scenery"],
    [route_id |-> 4, user_id |-> "u1", vote_type |-> "up", context |-> "safety"],
    [route_id |-> 4, user_id |-> "u2", vote_type |-> "up", context |-> "safety"],
    [route_id |-> 5, user_id |-> "u1", vote_type |-> "down", context |-> "efficiency"],
    [route_id |-> 5, user_id |-> "u2", vote_type |-> "down", context |-> "efficiency"] }

ListTags ==
  << [route_id |-> 1, tag_id |-> "tagA"], [route_id |-> 2, tag_id |-> "tagB"],
     [route_id |-> 4, tag_id |-> "tagA"], [route_id |-> 5, tag_id |-> "tagA"],
     [route_id |-> 5, tag_id |-> "tagB"] >>

InitList ==
  /\ routes = ListRoutes
  /\ route_points = <<>>
  /\ route_tags = ListTags
  /\ votes = ListVotes
  /\ req = [s \in Slots |-> NoReq]
  /\ pc = [s \in Slots |-> "idle"]
  /\ user = [s \in Slots |-> None]
  /\ routeId = [s \in Slots |-> 0]
  /\ res = [s \in Slots |-> NoRes]
  /\ fetched = [s \in Slots |-> None]
  /\ sortedPoints = [s \in Slots |-> <<>>]
  /\ calls = [s \in Slots |-> <<>>]
  /\ lastUpsert = [k \in VoteKeys |->
                     { v \in ListVotes : v.route_id = k[1] /\ v.user_id = k[2] }]

\* The location parameters of a query string: absent, numbers, and text that is no number.
GeoParams ==
  { [lat |-> None, lng |-> None, radius |-> None, dest_lat |-> None, dest_lng |-> None],
    [lat |-> Some("30.28"), lng |-> Some("-97.73"), radius |-> Some("1000"),
     dest_lat |-> Some("30.28"), dest_lng |-> Some("-97.73")],
    [lat |-> Some("north"), lng |-> Some(""), radius |-> Some("250.7"),
     dest_lat |-> None, dest_lng |-> Some("-97.73")] }

\* The requests of the listing workload: every sort value (absent, the three
\* criteria, an unknown one) with every tag filter and every set of location parameters.
ListRequests ==
  { ListReq(None, [lat |-> g.lat, lng |-> g.lng, radius |-> g.radius,
                   dest_lat |-> g.dest_lat, dest_lng |-> g.dest_lng,
                   tags |-> tg, sort |-> so]) :
      g \in GeoParams,
      tg \in { None, Some(<<"">>), Some(<<" Shade", "none">>), Some(<<"QUIET">>) },
      so \in { None, Some("popular"), Some("efficient"), Some("recent"), Some("newest") } }

\* The slots that serve the listing workload.
ListSlots == {1, 2}

\* Concurrent GET /routes over the small storage.
NextList ==
  \E s \in ListSlots :
    \/ \E r \in ListRequests : Receive(s, r)
    \/ ListRoutesSelect(s)
    \/ ListRoutesVotes(s)

SpecList == InitList /\ [][NextList]_vars

\* The voters of the seeded votes, other than the users of the two tokens.
Voter(i) == "v" \o ToString(i)

\* The votes of up + down voters on route 1.
RatingVotes(up, down) ==
  { [route_id |-> 1, user_id |-> Voter(i),
     vote_type |-> IF i <= up THEN "up" ELSE "down", context |-> "safety"] :
      i \in 1..(up + down) }

\* Numbers of up and down votes: none, a single vote, thirds, sixteen votes whose
\* rating lies exactly between two hundredths, and eighty votes whose rating does too.
RatingMixes ==
  { <<0, 0>>, <<1, 0>>, <<0, 1>>, <<1, 2>>, <<2, 1>>, <<9, 7>>, <<7, 9>>,
    <<42, 37>>, <<43, 37>>, <<37, 43>> }

\* The seed routes, with one of the vote sets on route 1.
InitRating ==
  /\ routes = SeedRoutes
  /\ route_points = SeedPoints
  /\ route_tags = <<>>
  /\ \E mix \in RatingMixes : votes = RatingVotes(mix[1], mix[2])
  /\ req = [s \in Slots |-> NoReq]
  /\ pc = [s \in Slots |-> "idle"]
  /\ user = [s \in Slots |-> None]
  /\ routeId = [s \in Slots |-> 0]
  /\ res = [s \in Slots |-> NoRes]
  /\ fetched = [s \in Slots |-> None]
  /\ sortedPoints = [s \in Slots |-> <<>>]
  /\ calls = [s \in Slots |-> <<>>]
  /\ lastUpsert = [k \in VoteKeys |-> None]

\* The requests of the rating workload: the three endpoints that return avg_rating.
RatingRequests ==
  { ListReq(None, NoQuery), GetReq(1), GetReq(2),
    VoteReq(Bearer("t1"), 1, Some("up"), Some("safety")),
    VoteReq(Bearer("t2"), 1, Some("down"), Some("scenery")),
    VoteReq(Bearer("t1"), 2, Some("down"), Some("safety")) }

NextRating ==
  \E s \in Slots :
    \/ \E r \in RatingRequests : Receive(s, r)
    \/ RequireAuth(s)
    \/ RouteCheck(s)
    \/ VoteUpsert(s)
    \/ VoteTotals(s)
    \/ GetRouteSelect(s)
    \/ GetRouteVotes(s)
    \/ ListRoutesSelect(s)
    \/ ListRoutesVotes(s)

SpecRating == InitRating /\ [][NextRating]_vars

\* ------------------------------------------------- calls that throw

\* The storage call a handler awaits at each of its positions.
CallAt(l) ==
  CASE l = "await_create_route" -> "create_route_with_geography"
    [] l = "await_insert_points" -> "insert_route_points"
    [] l = "await_insert_tags" -> "route_tags.insert"
    [] l \in {"await_route_check", "await_route_select", "await_routes_list"} -> "routes.select"
    [] l = "await_vote_upsert" -> "votes.upsert"
    [] l \in {"await_vote_totals", "await_votes_select", "await_list_votes"} -> "votes.select"
    [] l = "await_profile" -> "profiles.select"
    [] l = "await_routes_count" -> "routes.count"
    [] l = "await_usage_count" -> "route_usage.count"
    [] l = "await_friends" -> "friends.select"

AwaitLabels ==
  { "await_create_route", "await_insert_points", "await_insert_tags", "await_route_check",
    "await_route_select", "await_routes_list", "await_vote_upsert", "await_vote_totals",
    "await_votes_select", "await_list_votes", "await_profile", "await_routes_count",
    "await_usage_count", "await_friends" }

\* The awaited storage call throws instead of returning an error: every handler runs
\* inside try/catch, and its catch answers 500 (createRoute with details, the others
\* with message).
StorageThrows(s) ==
  /\ pc[s] \in AwaitLabels
  /\ Called(s, CallAt(pc[s]), FALSE)
  /\ IF req[s].ep = "createRoute"
     THEN Respond(s, [status |-> 500, error |-> "Internal server error",
                      details |-> "thrown error"])
     ELSE Respond(s, [status |-> 500, error |-> "Internal server error",
                      message |-> "thrown error"])
  /\ UNCHANGED <<storage, req, user, routeId, fetched, sortedPoints, lastUpsert>>

\* await supabase.auth.getUser(token) throws: requireAuth has no try/catch, so the
\* promise of the async middleware is rejected. What becomes of it is the router's
\* choice: a router that takes the promise of a handler forwards the error to the
\* default error handler, which answers 500; a router that ignores the returned
\* promise leaves the request without a response.
RequireAuthThrows(s) ==
  /\ pc[s] = "auth"
  /\ req[s].auth # None /\ Val(req[s].auth).scheme = "Bearer"
  /\ \E forwarded \in BOOLEAN :
       IF forwarded
       THEN Respond(s, [status |-> 500])
       ELSE /\ pc' = [pc EXCEPT ![s] = "unanswered"]
            /\ UNCHANGED res
  /\ UNCHANGED <<storage, req, user, routeId, fetched, sortedPoints, calls, lastUpsert>>

\* The requests of the whole surface: the authentication workload and a route with a tag.
LiveRequests ==
  AuthRequests \cup { CreateReq(Bearer("t1"), [BaseBody EXCEPT !.tags = Some(<<"tagA">>)]) }

\* A step of the request of slot s: the middleware or the handler runs on as soon as
\* the call it awaits has returned or thrown.
LiveStep(s) ==
  \/ RequireAuth(s)
  \/ RequireAuthThrows(s)
  \/ CreateRouteRpc(s)
  \/ InsertPointsRpc(s)
  \/ InsertRouteTags(s)
  \/ RouteCheck(s)
  \/ VoteUpsert(s)
  \/ VoteTotals(s)
  \/ GetRouteSelect(s)
  \/ GetRouteVotes(s)
  \/ ListRoutesSelect(s)
  \/ ListRoutesVotes(s)
  \/ MeProfile(s)
  \/ MeRoutesCount(s)
  \/ MeUsageCount(s)
  \/ MeFriends(s)
  \/ StorageThrows(s)

NextLive ==
  \E s \in Slots :
    \/ \E r \in LiveRequests : Receive(s, r)
    \/ LiveStep(s)

\* The collaborators' calls return and the event loop runs every continuation: a
\* request that can take a step eventually takes one.
SpecLive == Init /\ [][NextLive]_vars /\ \A s \in Slots : WF_vars(LiveStep(s))

\* ------------------------------------------------------------------ claims

\* The upsert of slot s was applied to the votes table.
UpsertApplied(s) ==
  /\ req[s].ep = "castVote"
  /\ \E i \in 1..Len(calls[s]) : calls[s][i] = [call |-> "votes.upsert", ok |-> TRUE]

VotesOfKey(k) == { v \in votes : v.route_id = k[1] /\ v.user_id = k[2] }

C2_VotePerContext ==
  \A s \in Slots :
    UpsertApplied(s) =>
      \E v \in votes : /\ v.route_id = req[s].id
                       /\ v.user_id = Val(user[s])
                       /\ v.context = Val(req[s].body.context)

\* The rows of route_points, and of route_tags, that belong to route id.
PointsOfRoute(id) == SelectSeq(route_points, LAMBDA x : x.route_id = id)
TagsOfRoute(id) == SelectSeq(route_tags, LAMBDA x : x.route_id = id)

\* The names of the storage calls slot s issued, in order.
CallNames(s) == [i \in 1..Len(calls[s]) |-> calls[s][i].call]

CreateCallOrder == <<"create_route_with_geography", "insert_route_points", "route_tags.insert">>

IsCreate(s) == req[s].ep = "createRoute"

\* C3: a read never returns a route created by createRoute with fewer points than
\* the creating request submitted.
C3_NoPartialRead ==
  \A s, c \in Slots :
    (req[s].ep = "getRoute" /\ res[s].status = 200 /\ IsCreate(c)
       /\ routeId[c] = res[s].route.id)
      => Len(res[s].route_points) = Len(Val(req[c].body.points))

\* C4: the storage calls of a createRoute request are a prefix of route row, points,
\* tags; a call is issued only after the previous one returned without error; and
\* when the route-row call fails the request ends 500 with no further call.
C4_CallOrder ==
  \A s \in Slots :
    IsCreate(s) =>
      /\ Len(calls[s]) <= Len(CreateCallOrder)
      /\ CallNames(s) = SubSeq(CreateCallOrder, 1, Len(calls[s]))
      /\ \A i \in 1..(Len(calls[s]) - 1) : calls[s][i].ok
      /\ (Len(calls[s]) >= 1 /\ ~calls[s][1].ok) =>
           (pc[s] = "done" /\ res[s].status = 500 /\ Len(calls[s]) = 1)

\* C4 witness: one request issued all three calls and another stopped at a failed
\* route-row call.
C4_Witness ==
  \E s1, s2 \in Slots :
    /\ IsCreate(s1) /\ Len(calls[s1]) = 3
    /\ IsCreate(s2) /\ Len(calls[s2]) = 1 /\ ~calls[s2][1].ok /\ pc[s2] = "done"

\* The points call of slot s failed after its route row was created.
PointsFailed(s) == IsCreate(s) /\ Len(calls[s]) >= 2 /\ ~calls[s][2].ok

\* C5: when insert_route_points fails after the route row was created, the request
\* ends 500 without a tag insert, and the route row stays stored, active, with no
\* points and no tags.
C5_PointsFailureLeavesRoute ==
  \A s \in Slots :
    PointsFailed(s) =>
      /\ pc[s] = "done" /\ res[s].status = 500
      /\ Len(calls[s]) = 2
      /\ \E r \in routes : r.id = routeId[s] /\ r.is_active
      /\ PointsOfRoute(routeId[s]) = <<>>
      /\ TagsOfRoute(routeId[s]) = <<>>

\* C5 witness: the points call of a request that carried tags failed.
C5_Witness ==
  \E s \in Slots : PointsFailed(s) /\ HasTags(req[s].body) /\ res[s].status = 500

\* The tag insert of slot s was issued (the route row and the points were persisted).
TagsIssued(s) == IsCreate(s) /\ Len(calls[s]) = 3

\* C6: once the tag insert was issued, whether it succeeded or failed, the request is
\* answered 201 with the route id, and the route and all its points are stored.
C6_TagFailureSwallowed ==
  \A s \in Slots :
    TagsIssued(s) =>
      /\ pc[s] = "done" /\ res[s].status = 201 /\ res[s].route_id = routeId[s]
      /\ \E r \in routes : r.id = routeId[s]
      /\ Len(PointsOfRoute(routeId[s])) = Len(Val(req[s].body.points))

\* C6 witness: a tag insert failed and its request was answered 201.
C6_Witness ==
  \E s \in Slots : TagsIssued(s) /\ ~calls[s][3].ok /\ res[s].status = 201

Created201(s) == IsCreate(s) /\ res[s].status = 201

\* M of a request: the number of tag ids it submitted.
SubmittedTags(b) == IF b.tags = None THEN 0 ELSE Len(Val(b.tags))

\* C7: a 201 of createRoute names a route that is not a seed row and no other 201
\* names, stored as exactly one row, with exactly N points and at most M tags; the
\* route-row call and the points call of the request both succeeded.
C7_CreatedExactly ==
  \A s \in Slots :
    Created201(s) =>
      LET id == res[s].route_id IN
      /\ id = routeId[s]
      /\ id \notin { r.id : r \in SeedRoutes }
      /\ Cardinality({ r \in routes : r.id = id }) = 1
      /\ \A r \in routes : r.id = id => r.creator_id = Val(user[s])
      /\ Len(PointsOfRoute(id)) = Len(Val(req[s].body.points))
      /\ Len(TagsOfRoute(id)) <= SubmittedTags(req[s].body)
      /\ Len(calls[s]) >= 2 /\ calls[s][1].ok /\ calls[s][2].ok
      /\ \A o \in Slots \ {s} : Created201(o) => res[o].route_id # id

\* C7 witness: two requests were answered 201, one of them with two points and two
\* tags stored.
C7_Witness ==
  \E s, o \in Slots :
    /\ s # o /\ Created201(s) /\ Created201(o)
    /\ Len(PointsOfRoute(res[s].route_id)) = 2
    /\ Len(TagsOfRoute(res[s].route_id)) = 2

\* C8: a 400 of createRoute or castVote is sent by a handler that issued no storage
\* call, and the step that sends it leaves every table as it was.
C8_NoStorageBefore400 ==
  /\ [](\A s \in Slots : res[s].status = 400 => calls[s] = <<>>)
  /\ [][\A s \in Slots :
          (res[s].status # 400 /\ res'[s].status = 400) => UNCHANGED storage]_vars

\* C8 witness: a createRoute and a castVote were both answered 400.
C8_Witness ==
  \E s1, s2 \in Slots :
    /\ IsCreate(s1) /\ res[s1].status = 400
    /\ req[s2].ep = "castVote" /\ res[s2].status = 400

\* The handler of slot s has run (requireAuth attached the user and called next()).
HandlerRan(s) == user[s] # None

\* The required fields a createRoute body lacks: a text field absent or empty, points
\* absent or an empty array.
AbsentFields(b) ==
  { f \in {"title", "start_label", "end_label", "start_time", "end_time"} :
      b[f] = None \/ b[f] = Some("") }
  \cup (IF b.points = None THEN {"points"}
        ELSE IF Len(Val(b.points)) = 0 THEN {"points"} ELSE {})

\* C9: a createRoute request that lacks a required field is answered 400 by the
\* handler, and the list of the response names every field it lacks.
C9_MissingFieldsNamed ==
  \A s \in Slots :
    (IsCreate(s) /\ HandlerRan(s) /\ AbsentFields(req[s].body) # {}) =>
      /\ pc[s] = "done" /\ res[s].status = 400
      /\ \A f \in AbsentFields(req[s].body) :
           \E i \in 1..Len(res[s].required) : res[s].required[i] = f

\* C9 witness: a request lacking only points (an empty array) was answered 400.
C9_Witness ==
  \E s \in Slots :
    /\ IsCreate(s) /\ HandlerRan(s)
    /\ req[s].body.points = Some(<<>>)
    /\ AbsentFields(req[s].body) = {"points"}
    /\ res[s].status = 400

\* A point that lacks lat, lng or time, or lies outside [-90,90] x [-180,180]
\* (every point of the requests carries a seq).
InvalidPoint(p) ==
  \/ p.lat = None \/ p.lng = None \/ p.time = None
  \/ (p.lat # None /\ (Val(p.lat) < -90 \/ Val(p.lat) > 90))
  \/ (p.lng # None /\ (Val(p.lng) < -180 \/ Val(p.lng) > 180))

HasInvalidPoint(b) ==
  /\ b.points # None
  /\ \E i \in 1..Len(Val(b.points)) : InvalidPoint(Val(b.points)[i])

\* C10: a createRoute request with an invalid point is answered 400 and its handler
\* issues no storage call.
C10_InvalidPointRejected ==
  \A s \in Slots :
    (IsCreate(s) /\ HandlerRan(s) /\ HasInvalidPoint(req[s].body)) =>
      /\ calls[s] = <<>>
      /\ pc[s] = "done" => res[s].status = 400

\* The route row of createRoute slot s was stored.
RouteCreated(s) == IsCreate(s) /\ Len(calls[s]) >= 1 /\ calls[s][1].ok

\* The points of createRoute slot s were stored.
PointsStored(s) == IsCreate(s) /\ Len(calls[s]) >= 2 /\ calls[s][2].ok

\* The route row createRoute slot s stored.
RouteOf(s) == CHOOSE r \in routes : r.id = routeId[s]

\* Rows in ascending order of sequence.
AscendingSequence(rows) ==
  \A i, j \in 1..Len(rows) :
    (i < j /\ rows[i].sequence # None /\ rows[j].sequence # None)
      => Val(rows[i].sequence) <= Val(rows[j].sequence)

\* The stored row holds the submitted point.
SamePoint(row, p) ==
  row.sequence = p.seq /\ row.lat = p.lat /\ row.lng = p.lng /\ row.recorded_at = p.time

\* The rows are the submitted points, those of equal seq in the order of submission.
KeepsSubmissionOrder(rows, points) ==
  /\ Len(rows) = Len(points)
  /\ \E f \in Permutations(1..Len(points)) :
       /\ \A i \in 1..Len(rows) : SamePoint(rows[i], points[f[i]])
       /\ \A i, j \in 1..Len(rows) :
            (i < j /\ rows[i].sequence = rows[j].sequence) => f[i] < f[j]

\* C11: the points a createRoute request stored (the rows handed to insert_route_points,
\* in their order) are in ascending seq order, points of equal seq in submission
\* order, and the anchors of its route row are the coordinates of the first and of the
\* last of them.
C11_SortedStableAnchors ==
  \A s \in Slots :
    PointsStored(s) =>
      LET rows == PointsOfRoute(routeId[s]) IN
      /\ AscendingSequence(rows)
      /\ KeepsSubmissionOrder(rows, Val(req[s].body.points))
      /\ RouteOf(s).start_lat = rows[1].lat /\ RouteOf(s).start_lng = rows[1].lng
      /\ RouteOf(s).end_lat = rows[Len(rows)].lat /\ RouteOf(s).end_lng = rows[Len(rows)].lng

\* C12: the stored points of every route have pairwise distinct sequence numbers,
\* latitudes in [-90, 90] and longitudes in [-180, 180].
C12_StoredPointsValid ==
  \A r \in routes :
    LET rows == PointsOfRoute(r.id) IN
    /\ \A i, j \in 1..Len(rows) : i # j => rows[i].sequence # rows[j].sequence
    /\ \A i \in 1..Len(rows) :
         /\ rows[i].lat # None /\ Val(rows[i].lat) >= -90 /\ Val(rows[i].lat) <= 90
         /\ rows[i].lng # None /\ Val(rows[i].lng) >= -180 /\ Val(rows[i].lng) <= 180

\* end_time - start_time of the request of slot s, in milliseconds.
ElapsedMs(s) == DateMs(Val(req[s].body.end_time)) - DateMs(Val(req[s].body.start_time))

\* ms milliseconds in seconds, truncated toward zero.
TruncatedSeconds(ms) == IF ms >= 0 THEN ms \div 1000 ELSE -((-ms) \div 1000)

\* C13 as stated: the stored duration_seconds of a route created by createRoute is
\* end_time - start_time in seconds truncated toward zero, also when end_time is the
\* earlier one and the difference is not a whole number of seconds.
C13_DurationTruncated ==
  \A s \in Slots :
    RouteCreated(s) => RouteOf(s).duration_seconds = TruncatedSeconds(ElapsedMs(s))

\* C13 amended: the stored duration_seconds is end_time - start_time in seconds rounded
\* down (toward minus infinity): it is the greatest whole number of seconds not above
\* the difference. It is the truncation toward zero when end_time is not the earlier
\* one or the difference is a whole number of seconds.
C13_DurationFloored ==
  \A s \in Slots :
    RouteCreated(s) =>
      LET d == RouteOf(s).duration_seconds IN
      /\ 1000 * d <= ElapsedMs(s) /\ ElapsedMs(s) < 1000 * (d + 1)
      /\ (ElapsedMs(s) >= 0 \/ ElapsedMs(s) % 1000 = 0) => d = TruncatedSeconds(ElapsedMs(s))

\* C13 witness: a route was stored whose end_time is 59.5 s before its start_time, with
\* a duration of -60 s.
C13_Witness ==
  \E s \in Slots :
    RouteCreated(s) /\ ElapsedMs(s) = -59500 /\ RouteOf(s).duration_seconds = -60

RECURSIVE PairSum(_)
\* The sum of the distances of the consecutive points of ps.
PairSum(ps) ==
  IF Len(ps) < 2 THEN Some(0)
  ELSE AddDistance(PairSum(SubSeq(ps, 1, Len(ps) - 1)), Haversine(ps[Len(ps) - 1], ps[Len(ps)]))

Reverse(ps) == [i \in 1..Len(ps) |-> ps[Len(ps) + 1 - i]]

IsVote(s) == req[s].ep = "castVote"

\* The handler of castVote slot s has returned.
VoteHandled(s) == IsVote(s) /\ HandlerRan(s) /\ pc[s] = "done"

\* C15: castVote answers by the first check that fails, in the order fields present,
\* vote_type valid, context valid, route active: 400 naming the field for the first
\* three (whatever the route id), 404 for the last; a request answered 400 or 404 has
\* issued no upsert, and the step that answers it leaves the votes table as it was.
C15_VoteCheckOrder ==
  /\ [](\A s \in Slots :
          VoteHandled(s) =>
            LET b == req[s].body IN
            /\ IF FalsyStr(b.vote_type) \/ FalsyStr(b.context)
               THEN /\ res[s].status = 400 /\ res[s].error = "Missing required fields"
                    /\ \A f \in {"vote_type", "context"} :
                         FalsyStr(b[f]) => \E i \in 1..Len(res[s].required) :
                                             res[s].required[i] = f
                    /\ calls[s] = <<>>
               ELSE IF Val(b.vote_type) \notin {"up", "down"}
               THEN res[s].status = 400 /\ res[s].error = "Invalid vote_type"
                    /\ calls[s] = <<>>
               ELSE IF Val(b.context) \notin {"safety", "efficiency", "scenery"}
               THEN res[s].status = 400 /\ res[s].error = "Invalid context"
                    /\ calls[s] = <<>>
               ELSE (\A r \in routes : r.id = req[s].id => ~r.is_active)
                      => (res[s].status = 404 /\ CallNames(s) = <<"routes.select">>)
            /\ res[s].status \in {400, 404} =>
                 \A i \in 1..Len(calls[s]) : calls[s][i].call # "votes.upsert")
  /\ [][\A s \in Slots :
          (IsVote(s) /\ res[s].status = 0 /\ res'[s].status \in {400, 404})
            => votes' = votes]_vars

\* C15 witness: a vote with an invalid vote_type and an invalid context on an id no
\* route has was answered 400 for the vote_type, and a valid vote on a soft-deleted
\* route 404 after the route lookup.
C15_Witness ==
  \E s1, s2 \in Slots :
    /\ VoteHandled(s1) /\ req[s1].id = 9 /\ req[s1].body.vote_type = Some("sideways")
    /\ req[s1].body.context = Some("speed")
    /\ res[s1].status = 400 /\ res[s1].error = "Invalid vote_type"
    /\ VoteHandled(s2) /\ req[s2].id = 3 /\ res[s2].status = 404
    /\ calls[s2] = <<[call |-> "routes.select", ok |-> TRUE]>>

\* C16: a 201 of castVote carries the aggregate of the route's votes with the
\* caller's vote in it: vote_count is at least 1, upvotes + downvotes = vote_count and
\* avg_rating is the rating of these counts.
C16_UpdatedAggregate ==
  \A s \in Slots :
    (IsVote(s) /\ res[s].status = 201) =>
      /\ res[s].vote_count >= 1
      /\ res[s].upvotes + res[s].downvotes = res[s].vote_count
      /\ res[s].avg_rating = ToFixed2(res[s].upvotes - res[s].downvotes, res[s].vote_count)

\* The header of slot s is 'Bearer <token>' with a token the auth provider accepts.
ValidBearer(s) ==
  /\ req[s].auth # None
  /\ Val(req[s].auth).scheme = "Bearer"
  /\ GetUser(Val(req[s].auth).token) # None

\* C17: on POST /routes, POST /routes/:id/vote, POST /routes/:id/comments and the
\* /users endpoints a request without a bearer token the auth provider accepts is
\* answered 401 and nothing else: its handler is not run and it issues no storage
\* call; GET /routes and GET /routes/:id are never held up by the authentication and
\* never answered 401, with or without a token.
C17_ProtectedNeedBearer ==
  \A s \in Slots :
    /\ (req[s].ep \in {"createRoute", "castVote", "addComment", "getMe", "friendRequest"}
          /\ ~ValidBearer(s)) =>
         /\ pc[s] \in {"auth", "done"}
         /\ pc[s] = "done" => res[s].status = 401
         /\ ~HandlerRan(s)
         /\ calls[s] = <<>>
    /\ req[s].ep \in {"getRoute", "listRoutes"} =>
         /\ pc[s] # "auth"
         /\ res[s].status # 401

\* C17 witness: a comment with a rejected token was answered 401 and a GET /routes
\* without a token 200.
C17_Witness ==
  \E s1, s2 \in Slots :
    /\ req[s1].ep = "addComment" /\ req[s1].auth = Bearer("expired") /\ res[s1].status = 401
    /\ req[s2].ep = "listRoutes" /\ req[s2].auth = None /\ res[s2].status = 200

\* The user the auth provider returns for the bearer token of slot s.
TokenUser(s) == Val(GetUser(Val(req[s].auth).token))

\* Slot s got its storage call c answered without error in this step.
Succeeds(s, c) == calls'[s] = Append(calls[s], [call |-> c, ok |-> TRUE])

\* C18: the route row a createRoute request stores has the creator_id, and the vote
\* row a castVote request upserts the user_id, of the user the auth provider returned
\* for the token of that request, whatever the body names and whoever else is being
\* served; every stored vote is the vote of a request of its user.
C18_AttributedToTokenUser ==
  /\ [](\A s \in Slots : RouteCreated(s) => RouteOf(s).creator_id = TokenUser(s))
  /\ [](\A v \in votes :
          \E s \in Slots : UpsertApplied(s) /\ req[s].id = v.route_id
                            /\ TokenUser(s) = v.user_id)
  /\ [][\A s \in Slots :
          /\ Succeeds(s, "create_route_with_geography") =>
               (routes' # routes /\ \A r \in routes' \ routes : r.creator_id = TokenUser(s))
          /\ Succeeds(s, "votes.upsert") =>
               /\ \E v \in votes' : v.route_id = req[s].id /\ v.user_id = TokenUser(s)
               /\ \A v \in votes' \ votes : v.user_id = TokenUser(s)]_vars

\* C18 witness: two users voted while being served together, each body naming the
\* other user, and each vote is stored under the user of its token.
C18_Witness ==
  \E s1, s2 \in Slots :
    /\ UpsertApplied(s1) /\ UpsertApplied(s2)
    /\ TokenUser(s1) = "u1" /\ req[s1].body.user_id = Some("u2")
    /\ TokenUser(s2) = "u2" /\ req[s2].body.user_id = Some("u1")
    /\ Cardinality(votes) = 2

\* C19: when the route select of GET /routes/:id returns without a storage error and
\* no active route has the id (no row, or a row with is_active = false), the answer
\* is 404; a 200 carries a stored active route of that id and only points of it.
C19_InactiveNotFound ==
  \A s \in Slots :
    (req[s].ep = "getRoute" /\ pc[s] = "done") =>
      /\ (calls[s][1].ok /\ \A r \in routes : r.id = req[s].id => ~r.is_active)
           => res[s].status = 404
      /\ res[s].status = 200 =>
           /\ res[s].route \in routes /\ res[s].route.id = req[s].id
           /\ res[s].route.is_active
           /\ \A i \in 1..Len(res[s].route_points) :
                \E j \in 1..Len(route_points) :
                  /\ route_points[j].route_id = req[s].id
                  /\ route_points[j].sequence = res[s].route_points[i].seq
                  /\ route_points[j].lat = res[s].route_points[i].lat
                  /\ route_points[j].lng = res[s].route_points[i].lng

\* C19 witness: the row of route 3 is stored with is_active = false and a GET of it
\* was answered 404 after a select without error.
C19_Witness ==
  \E s \in Slots :
    /\ req[s].ep = "getRoute" /\ req[s].id = 3
    /\ \E r \in routes : r.id = 3 /\ ~r.is_active
    /\ calls[s] = <<[call |-> "routes.select", ok |-> TRUE]>>
    /\ res[s].status = 404

\* C20: the data of a 200 of GET /routes holds only routes stored with is_active =
\* true, each route once, at most 100 entries, and count is the number of entries.
C20_FeedActiveBounded ==
  \A s \in Slots :
    (req[s].ep = "listRoutes" /\ res[s].status = 200) =>
      LET data == res[s].data IN
      /\ \A i \in 1..Len(data) : \E r \in routes : r.id = data[i].id /\ r.is_active
      /\ \A i, j \in 1..Len(data) : i # j => data[i].id # data[j].id
      /\ Len(data) <= 100
      /\ res[s].count = Len(data)

\* C20 witness: with more than 100 active routes and a soft-deleted one stored, a
\* GET /routes returned 100 entries.
C20_Witness ==
  \E s \in Slots :
    /\ req[s].ep = "listRoutes" /\ res[s].status = 200
    /\ Cardinality({ r \in routes : r.is_active }) > 100
    /\ \E r \in routes : ~r.is_active
    /\ Len(res[s].data) = 100 /\ res[s].count = 100

\* Slot s holds the 200 of a GET /routes.
ListAnswered(s) == req[s].ep = "listRoutes" /\ pc[s] = "done" /\ res[s].status = 200

\* The criterion a GET /routes asks for: sort, 'recent' when it is omitted.
RequestedSort(s) == IF req[s].query.sort = None THEN "recent" ELSE Val(req[s].query.sort)

\* The number of votes the storage holds on a route.
VoteCountOf(id) == Cardinality({ v \in votes : v.route_id = id })

\* The keys of data, read left to right, never go down.
NonDecreasing(data, Key(_)) ==
  \A i, j \in 1..Len(data) : i < j => Key(data[i]) <= Key(data[j])

DistanceKey(e) == IF e.distance_meters = None THEN 0 ELSE Val(e.distance_meters)
VotesKey(e) == 0 - VoteCountOf(e.id)
CreatedKey(e) == 0 - e.created_at

\* C21: the data of GET /routes is ordered by the requested criterion: distance_meters
\* non-decreasing for sort='efficient', the routes' total vote counts non-increasing
\* for sort='popular', created_at non-increasing for sort='recent' or no sort.
C21_OrderedByCriterion ==
  \A s \in Slots :
    ListAnswered(s) =>
      /\ RequestedSort(s) = "efficient" => NonDecreasing(res[s].data, DistanceKey)
      /\ RequestedSort(s) = "popular" => NonDecreasing(res[s].data, VotesKey)
      /\ RequestedSort(s) = "recent" => NonDecreasing(res[s].data, CreatedKey)

\* The ids of the routes the handler of slot s fetched.
FetchedIds(s) == { Val(fetched[s])[i].route.id : i \in 1..Len(Val(fetched[s])) }

\* The ids listed in the data of the response of slot s.
ListedIds(s) == { res[s].data[i].id : i \in 1..Len(res[s].data) }

\* The names of the tags the storage associates with a route.
TagNamesOf(id) ==
  { t.name : t \in { x \in TagsTable :
                       \E i \in 1..Len(route_tags) :
                         route_tags[i].route_id = id /\ route_tags[i].tag_id = x.id } }

\* The tags parameter of slot s is provided (not absent, not empty).
TagsProvided(s) == req[s].query.tags # None /\ req[s].query.tags # Some(<<"">>)

\* The comma-separated filter names of slot s, without the blanks around them.
FilterNames(s) ==
  { Trim(Val(req[s].query.tags)[i]) : i \in 1..Len(Val(req[s].query.tags)) }

EqualIgnoringCase(a, b) == ToLowerCase(a) = ToLowerCase(b)

\* C22: with a tags parameter GET /routes returns exactly the fetched routes that
\* have a tag name equal, ignoring case, to one of the filter names; without it no
\* fetched route is dropped.
C22_TagFilterExact ==
  \A s \in Slots :
    ListAnswered(s) =>
      /\ Len(res[s].data) = Cardinality(ListedIds(s))
      /\ ListedIds(s) =
           IF TagsProvided(s)
           THEN { id \in FetchedIds(s) :
                    \E n \in TagNamesOf(id), f \in FilterNames(s) : EqualIgnoringCase(n, f) }
           ELSE FetchedIds(s)

\* A filter of ' Shade,none' answered with routes 1 and 5, the two active routes
\* tagged 'Shade'; routes 2 and 3 are dropped.
C22_Witness ==
  \E s \in Slots :
    /\ ListAnswered(s)
    /\ req[s].query.tags = Some(<<" Shade", "none">>)
    /\ FetchedIds(s) = {1, 2, 3, 5}
    /\ ListedIds(s) = {1, 5}

\* Two queries that differ at most in lat, lng, radius, dest_lat and dest_lng.
DifferOnlyInLocation(q1, q2) == q1.tags = q2.tags /\ q1.sort = q2.sort

\* Two queries with different location parameters.
DifferInLocation(q1, q2) ==
  \/ q1.lat # q2.lat \/ q1.lng # q2.lng \/ q1.radius # q2.radius
  \/ q1.dest_lat # q2.dest_lat \/ q1.dest_lng # q2.dest_lng

\* The storage gave both slots the same answers: the same rows and the same outcomes.
SameStorageAnswers(s, t) == fetched[s] = fetched[t] /\ calls[s] = calls[t]

\* C23: GET /routes applies no location filter: over the same storage state (no
\* action of the listing workload writes, and both requests are answered the same
\* rows by their storage calls), two requests that differ only in lat, lng, radius,
\* dest_lat or dest_lng return identical data and count.
C23_NoLocationFilter ==
  \A s, t \in Slots :
    ( /\ ListAnswered(s) /\ ListAnswered(t)
      /\ storage = <<ListRoutes, <<>>, ListTags, ListVotes>>
      /\ DifferOnlyInLocation(req[s].query, req[t].query)
      /\ SameStorageAnswers(s, t) )
    => res[s].data = res[t].data /\ res[s].count = res[t].count

\* One request without location parameters and one with a latitude, a longitude and
\* a radius of 250.7, both sorted by distance, answered the same four routes.
C23_Witness ==
  \E s, t \in Slots :
    /\ ListAnswered(s) /\ ListAnswered(t)
    /\ DifferOnlyInLocation(req[s].query, req[t].query)
    /\ req[s].query.sort = Some("efficient") /\ req[s].query.tags = None
    /\ req[s].query.lat = None /\ req[t].query.lat = Some("north")
    /\ req[t].query.radius = Some("250.7")
    /\ SameStorageAnswers(s, t)
    /\ res[s].count = 4 /\ res[t].data = res[s].data

\* The location parameters of GET /routes, none of which filters the routes.
GeoNames == {"lat", "lng", "radius", "dest_lat", "dest_lng"}

\* C24: the envelope of GET /routes includes the applied filter values (tags, sort)
\* and echoes every unused geo parameter (lat, lng, radius, dest_lat, dest_lng) as null.
C24_FiltersEchoed ==
  \A s \in Slots :
    ListAnswered(s) =>
      LET f == res[s].filters IN
      /\ f.tags = (IF TagsProvided(s) THEN req[s].query.tags ELSE None)
      /\ f.sort = (IF req[s].query.sort = None THEN "recent" ELSE Val(req[s].query.sort))
      /\ \A g \in GeoNames : g \in DOMAIN f /\ f[g] = None

\* The pairs <<route id, avg_rating>> the response of slot s carries, if any.
RatingsIn(s) ==
  IF pc[s] # "done" THEN {}
  ELSE IF req[s].ep = "listRoutes" /\ res[s].status = 200
  THEN { <<res[s].data[i].id, res[s].data[i].avg_rating>> : i \in 1..Len(res[s].data) }
  ELSE IF req[s].ep = "getRoute" /\ res[s].status = 200
  THEN { <<req[s].id, res[s].avg_rating>> }
  ELSE IF req[s].ep = "castVote" /\ res[s].status = 201
  THEN { <<req[s].id, res[s].avg_rating>> }
  ELSE {}

\* C25: every avg_rating returned by GET /routes, GET /routes/:id and
\* POST /routes/:id/vote lies in [-1, 1] (in hundredths: [-100, 100]) and is 0 when
\* the route has no votes, for every vote set in storage.
C25_RatingInRange ==
  \A s \in Slots : \A p \in RatingsIn(s) :
    /\ -100 <= p[2] /\ p[2] <= 100
    /\ VoteCountOf(p[1]) = 0 => p[2] = 0

\* The three endpoints have answered among them: a route with votes rated -1 or 1,
\* and a route without votes rated 0.
C25_Witness ==
  /\ \E s \in Slots : \E p \in RatingsIn(s) : p[2] \in {-100, 100} /\ VoteCountOf(p[1]) > 0
  /\ \E s \in Slots : \E p \in RatingsIn(s) : p[2] = 0 /\ VoteCountOf(p[1]) = 0
  /\ \E s \in Slots : req[s].ep \in {"getRoute", "castVote"} /\ RatingsIn(s) # {}

\* (num / count) rounded to hundredths, a tie away from zero.
HalfAwayFromZero(num, count) ==
  LET mag == IF num < 0 THEN -num ELSE num
      n == (200 * mag + count) \div (2 * count)
  IN  IF num < 0 THEN -n ELSE n

\* upvotes - downvotes of the votes the storage holds on a route.
VoteBalanceOf(id) ==
  Cardinality({ v \in votes : v.route_id = id /\ v.vote_type = "up" })
    - Cardinality({ v \in votes : v.route_id = id /\ v.vote_type = "down" })

\* Slot s sends its response in this step, after a votes select that succeeded.
AnswersFromVotes(s) ==
  /\ pc[s] # "done" /\ pc'[s] = "done"
  /\ calls'[s] # calls[s]
  /\ calls'[s][Len(calls'[s])] = [call |-> "votes.select", ok |-> TRUE]

\* C26: for every vote set with total > 0, the three endpoints compute the same
\* avg_rating: (upvotes - downvotes) / total rounded to 2 decimal places, a tie
\* rounded half away from zero.
C26_RoundedHalfAway ==
  [][ \A s \in Slots :
        AnswersFromVotes(s) =>
          \A p \in RatingsIn(s)' :
            VoteCountOf(p[1]) > 0 =>
              p[2] = HalfAwayFromZero(VoteBalanceOf(p[1]), VoteCountOf(p[1])) ]_vars

\* The storage calls of slot s that failed, the tag-association insert apart.
FailedCalls(s) ==
  { i \in 1..Len(calls[s]) : ~calls[s][i].ok /\ calls[s][i].call # "route_tags.insert" }

\* C27: storage failures are surfaced at once: apart from the tag-association insert,
\* a request one of whose storage calls failed is answered with a 500, and never with
\* a success status (200 or 201).
C27_StorageFailureIs500 ==
  \A s \in Slots :
    pc[s] = "done" /\ FailedCalls(s) # {} => res[s].status = 500

\* C28: every error response (status 400, 401, 404 or 500) of every endpoint has the
\* shared envelope shape: an error label and a human-readable message, with details
\* as the only optional extra field.
C28_ErrorEnvelope ==
  \A s \in Slots :
    pc[s] = "done" /\ res[s].status \in {400, 401, 404, 500} =>
      /\ {"error", "message"} \subseteq DOMAIN res[s]
      /\ DOMAIN res[s] \subseteq {"status", "error", "message", "details"}

\* The handler of slot s ran on a createRoute request that has every required field
\* and an end_time earlier than its start_time.
ReversedTimes(s) ==
  /\ IsCreate(s) /\ HandlerRan(s)
  /\ ~MissingRequired(req[s].body)
  /\ ElapsedMs(s) < 0

\* C29: createRoute does not reject a request whose end_time is earlier than its
\* start_time: it goes on to persistence (its first storage call is the route
\* procedure), and the duration it stores is floor((end_time - start_time) in
\* seconds), which is negative.
C29_ReversedTimesPersisted ==
  \A s \in Slots :
    ReversedTimes(s) =>
      /\ res[s].status # 400
      /\ pc[s] = "done" => Len(calls[s]) >= 1
      /\ Len(calls[s]) >= 1 => calls[s][1].call = "create_route_with_geography"
      /\ RouteCreated(s) =>
           LET d == RouteOf(s).duration_seconds IN
           /\ d < 0
           /\ 1000 * d <= ElapsedMs(s) /\ ElapsedMs(s) < 1000 * (d + 1)

\* A request whose end_time is one minute before its start_time was answered 201 and
\* its route is stored with a duration of -60 s.
C29_Witness ==
  \E s \in Slots :
    /\ ReversedTimes(s) /\ ElapsedMs(s) = -60000
    /\ RouteCreated(s) /\ RouteOf(s).duration_seconds = -60
    /\ pc[s] = "done" /\ res[s].status = 201

\* C30: a request either completes or fails outright: every request eventually
\* receives a response, and a response once sent is never followed by another one,
\* on every path, also when the auth provider call or a storage call fails or throws.
C30_ExactlyOneResponse ==
  /\ \A s \in Slots : (pc[s] # "idle") ~> (pc[s] = "done" /\ res[s].status # 0)
  /\ [][\A s \in Slots : res[s].status # 0 => res'[s] = res[s]]_vars

====
